---- MODULE Spec2Model ----
(***************************************************************************)
(* Verification model of the Piano-Midi-Player real-time core:            *)
(*   audio/simple_synth.py  SimpleSynth  (voice table, ADSR envelope)      *)
(*   audio/engine.py        AudioEngine  (stream, callback, aux clips)     *)
(*   audio/metronome.py     Metronome    (single-shot beat timer)          *)
(*   piano_player/controller.py          (count-in handler, instrument)    *)
(*                                                                         *)
(* Floating point envelopes are fixed point numbers: EnvOne stands for     *)
(* 1.0.  Times are counted in sample periods (dt = 1), at a sample rate    *)
(* low enough for a stage to last a few samples.                           *)
(***************************************************************************)
EXTENDS Integers, Sequences, FiniteSets, TLC

\* ------------------------------------------------------------- bounds
\* Capacity of the voice table (88 in simple_synth.py:71, scaled down).
MAX_VOICES == 2
\* Resolution of the fixed point envelope: EnvOne is 20 times this.
EnvScale == 1
\* Samples a single voice is generated for after its note_on.
MaxElapsed == 16
\* Fixed point value of gain 1.0 and of a mixed sample 1.0 in the limiter.
GainOne == 100
\* Largest buffer generate() is asked for.
MaxSamples == 3

\* Fixed point value of sample 1.0 (synthesizer output, clips).
SampleOne == 2
\* Fixed point value of volume 1.0.
VolOne == 5
\* Hardware streams that may exist at once.
MaxStreams == 3
\* Clips waiting in AudioEngine._mix_queue.
MaxQueue == 1
\* Clips handed to queue_audio in one behaviour of the clip player.
MaxClips == 3

\* Clock ticks in one second, and the last tick the clock reaches.
TicksPerSecond == 10
\* Seconds a started metronome is left running for its beats to be counted.
RunSeconds == 10
MaxTime == 8
\* Events one recording takes from the keyboard, and the last tick of time.time().
MaxEvents == 4
MaxWall == 2

\* Keys played: one more than the table is meant to hold.
NoteNumbers == {0, 1, 2}
\* velocity / 127.0 is kept as the integer velocity.
Velocities == {100}
\* Key and velocity of the note_on calls where a steal chooses between a soft and
\* a loud voice: key 0 is played soft or loud, the other keys loud.
StealNotes == {<<0, 50>>, <<0, 100>>, <<1, 100>>, <<2, 100>>}
\* AudioEngine.buffer_size: one value per run, a stage lasts about a buffer.
BufferSizes == 2..MaxSamples
\* The keys the MIDI thread plays in the thread-level specification.
ThreadNotes == {0}
\* A sample beyond full scale, and what a synthesizer may put in a sample.
LoudSample == SampleOne + 1
SynthSamples == {-LoudSample, 0, LoudSample}
\* 1.0 for a sample multiplied by a volume.
Full == SampleOne * VolOne
\* One-shot clips handed to queue_audio: a short one, and one longer than a buffer.
Clips == {<<SampleOne>>, <<-SampleOne, LoudSample, SampleOne, -1>>}
NoClip == << >>
\* Values handed to the volume setter, and device indexes handed to set_output_device
\* (-1 stands for None).
VolumeInputs == {-1, 0, VolOne, VolOne + 1}
\* Every value around the volume range.
VolumeArgs == (0 - 2)..(VolOne + 2)
DeviceInputs == {-2, -1, 0, 1}
StartOutcomes == {"ok", "open_fails", "start_fails"}
\* Tempos and count-in lengths the user interface hands to the controller.
BpmInputs == {10, 150, 400}
CountInBeatsInputs == {0, 1, 2}
\* Notes and velocities handed to the recorder, and playback offsets handed to
\* recorder_events_to_notes.
RecNotes == {60, 61}
RecNoteOns == {<<60, 90>>, <<60, 110>>, <<61, 90>>}
Offsets == {0, 3}
\* Times at which the metronome left running is started.
StartTimes == {0, 1}
\* Arguments handed to set_meter: beats per cycle, accent beat.
MeterInputs == {<<0, 0>>, <<2, 1>>, <<2, 5>>, <<3, 0 - 2>>}
\* Beats per cycle handed to set_meter without an accent beat.
DefaultMeterInputs == {0 - 1, 4}
\* None for a time (_next_beat_at, the timer's deadline when it is not armed).
NoTime == 0 - 1
InstrumentNames == {"Piano", "Guitar"}
\* Samples of the mixed buffers handed to the limiter: silence, below the target
\* peak, at full scale, and beyond it.
LimiterSamples == {0, GainOne \div 2, -GainOne, (3 * GainOne) \div 2, -(2 * GainOne),
                   4 * GainOne}
\* Fixed point value of envelope 1.0: every ramp of both profiles has a whole step.
EnvOne == 20 * EnvScale

Min(a, b) == IF a <= b THEN a ELSE b
Max(a, b) == IF a >= b THEN a ELSE b
\* int(np.ceil(a / b)) for b > 0
Ceil(a, b) == -((-a) \div b)
Range(s) == {s[i] : i \in DOMAIN s}

VARIABLES
    notes,            \* SimpleSynth._notes: dict in insertion order, a sequence of voices
    sustain,          \* SimpleSynth._sustain
    sustained_notes,  \* SimpleSynth._sustained_notes
    instrument,       \* SimpleSynth._instrument
    prof,             \* _attack, _decay, _sustain_level, _release, _pedal_release
    buffer_size,      \* AudioEngine.buffer_size, the frames of every generate()
    last,             \* history: the last operation, with the key it was called for
                      \* (generate: voices removed; sustain_off: voices that were in pedal)
    lock,             \* SimpleSynth._lock: "free" or the thread holding it
    set_pc,           \* position of a running set_instrument call (0: none)
    set_target,       \* the profile that call is installing
    volume,           \* AudioEngine._volume
    synth_ref,        \* AudioEngine._synth: 0 for None, else the instance
    stream,           \* AudioEngine._stream: 0 for None, else the stream's id
    running,          \* AudioEngine._running
    output_device,    \* AudioEngine._output_device (-1 for None)
    streams,          \* the hardware streams that are open (opened, not closed)
    active,           \* those of them that are started: their callbacks fire
    mix_queue,        \* AudioEngine._mix_queue
    mix_current,      \* AudioEngine._mix_current (NoClip for None)
    mix_index,        \* AudioEngine._mix_index
    audio_callback_fn, \* AudioEngine._audio_callback_fn is set
    outdata,          \* what the last callback wrote to the device
    sink_data,        \* what the last callback handed to _audio_callback_fn, if it did
    elast,            \* history: the engine's last operation and its outcome
    now,              \* time.perf_counter(), in ticks
    m_running,        \* Metronome._running
    m_bpm,            \* Metronome._bpm
    m_next_beat_at,   \* Metronome._next_beat_at (NoTime for None)
    m_beats_per_cycle, \* Metronome._beats_per_cycle
    m_accent_beat,    \* Metronome._accent_beat
    m_beat_index,     \* Metronome._beat_index
    m_timer,          \* deadline of Metronome._timer (NoTime when it is not armed)
    m_click_callback, \* Metronome._click_callback is set
    metronome_enabled, \* PianoPlayerController._metronome_enabled
    count_in_enabled, \* PianoPlayerController._count_in_enabled
    count_in_beats,   \* PianoPlayerController._count_in_beats
    count_in_remaining, \* PianoPlayerController._count_in_remaining
    count_in_active,  \* PianoPlayerController._count_in_active
    recording,        \* PianoPlayerController._wav_recorder is not None
    mlast,            \* history: the last metronome operation and the events it delivered
    clk,              \* history of the single voice of SpecVoice: samples generated since
                      \* its note_on and since its first note_off, how that found it, and
                      \* whether the pedal has been down (held) or up (dry) ever since
    limiter_gain,     \* SimpleSynth._limiter_gain
    lim_in,           \* the buffer the last _apply_limiter call was given
    lim_out,          \* the buffer it returned
    dlast,            \* history: the last set_output_device call, its argument, the
                      \* engine's device, _running and _stream when it was called, the
                      \* stop() and start() calls it made, and its outcome
    rec_events,       \* MidiRecorder._events
    rec_start_time,   \* MidiRecorder._start_time (NoTime for None)
    rec_recording,    \* MidiRecorder._recording
    rec_active_notes, \* MidiRecorder._active_notes: note -> outstanding note_on count
                      \* (0 for a note that is not in the dict)
    rec_sustain_on,   \* MidiRecorder._sustain_on
    wall,             \* time.time(), in ticks
    note_events,      \* what recorder_events_to_notes returned last
    rlast,            \* history: the recorder's last operation, and for stop() whether
                      \* it was recording, the events and the pedal state before it and
                      \* the time it was called at, since the start of the recording
    ctl,              \* PianoPlayerController: whether start() and stop() were called,
                      \* whether the MIDI input runs, _synth, _cleanup_synths, the
                      \* instances created so far and those with a cleanup method,
                      \* the instances ever installed, and the history of the
                      \* cleanup() calls
    cin,              \* history of the count-in begun last: the beats it was begun
                      \* for, the beat signals emitted since, whether a recording was
                      \* running when it began, and how it ended
    ed,               \* the recordings the controller started (takes), its
                      \* _recording_offset, and the history of the merges into the
                      \* editor's event list: the take whose events were merged,
                      \* whether the stop found a recording in progress, and the note
                      \* and sustain events merged
    wav,              \* _wav_file of the WavRecorder of every take (none, open, or
                      \* the closed file object), the position of the audio callback
                      \* at the sink, the recorder whose write it called, the
                      \* position of _stop_recording, how a callback failed, and
                      \* what the last write put into the file next to what the
                      \* device got
    loop,             \* one call of _build_envelope_block in progress: the voice, the
                      \* profile, the pedal, num_samples, the samples written so far
                      \* (i is their number), whether a division by zero was raised,
                      \* the voice and i before the last pass of the loop, the passes
                      \* made and the voice the call was made for
    filt,             \* SimpleSynth's output filter: _hp_hz, _lp_hz, _hp_alpha, _lp_alpha
                      \* and the history _hp_prev_x, _hp_prev_y, _lp_prev_y
    ilast,            \* history: the name last handed to set_instrument, if any, and
                      \* the filter it found
    split,            \* history: the sample counts of the last generate() and, for
                      \* every voice it found, the envelope block and the voice after
                      \* it, from one call, from two calls and from one call a sample
    sched,            \* history of the metronome since its last start(): when it was
                      \* started, the beats emitted, whether the meter or the counter
                      \* was set, whether the tempo was set, and the latest a timer fired
    vlast,            \* history: the value last handed to the volume setter, if any
    aux,              \* one-shot clips: how many were queued, their samples in queueing
                      \* order, and the clip samples heard in the output so far
    cb                \* the audio callback in progress: its position, its stream, its
                      \* local `synth`, the instances generate was called on, and the
                      \* references published since it started

synthVars == <<notes, sustain, sustained_notes, instrument, prof, buffer_size, last>>
threadVars == <<lock, set_pc, set_target>>
streamVars == <<stream, running, output_device, streams, active, dlast>>
mixVars == <<volume, synth_ref, mix_queue, mix_current, mix_index, audio_callback_fn,
             outdata, sink_data>>
engineVars == <<streamVars, mixVars, elast>>
metroVars == <<now, m_running, m_bpm, m_next_beat_at, m_beats_per_cycle, m_accent_beat,
               m_beat_index, m_timer, m_click_callback, metronome_enabled,
               count_in_enabled, count_in_beats, count_in_remaining, count_in_active,
               recording, mlast>>
timeVars == <<clk>>
limiterVars == <<limiter_gain, lim_in, lim_out>>
swapVars == <<cb>>
auxVars == <<aux>>
volVars == <<vlast>>
schedVars == <<sched>>
recVars == <<rec_events, rec_start_time, rec_recording, rec_active_notes, rec_sustain_on,
            wall, note_events, rlast>>
splitVars == <<split>>
profileVars == <<filt, ilast>>
loopVars == <<loop>>
ctlVars == <<ctl, cin, ed, wav>>

vars == <<notes, sustain, sustained_notes, instrument, prof, buffer_size, last,
          lock, set_pc, set_target, volume, synth_ref, stream, running, output_device,
          streams, active, mix_queue, mix_current, mix_index, audio_callback_fn,
          outdata, sink_data, elast, now, m_running, m_bpm, m_next_beat_at,
          m_beats_per_cycle, m_accent_beat, m_beat_index, m_timer, m_click_callback,
          metronome_enabled, count_in_enabled, count_in_beats, count_in_remaining,
          count_in_active, recording, mlast, clk, limiter_gain, lim_in, lim_out, cb, aux, dlast, vlast, sched,
          rec_events, rec_start_time, rec_recording, rec_active_notes, rec_sustain_on,
          wall, note_events, rlast, split, filt, ilast, loop, ctl, cin, ed, wav>>

\* ------------------------------------------------------------- SimpleSynth

\* SimpleSynth.INSTRUMENTS: the envelope part of a profile.  Times are in
\* sample periods; sustain_level is 0.42 resp. 0.12 of full scale.
INSTRUMENTS(name) ==
    IF name = "Guitar"
    THEN [attack |-> 1, decay |-> 3, sustain_level |-> (12 * EnvOne) \div 100,
          release |-> 2, pedal_release |-> 5]
    ELSE [attack |-> 2, decay |-> 3, sustain_level |-> (42 * EnvOne) \div 100,
          release |-> 5, pedal_release |-> 10]

DEFAULT_INSTRUMENT == "Piano"

\* The envelope cap of a stolen voice, 0.05.
STEAL_CAP == (5 * EnvOne) \div 100

\* Note(...) as note_on builds it.
NewNote(n, v) ==
    [key |-> n, velocity |-> v, envelope |-> 0, stage |-> "attack", released |-> FALSE]

Keys(ns) == {ns[i].key : i \in DOMAIN ns}
HasNote(ns, n) == n \in Keys(ns)
IndexOf(ns, n) == CHOOSE i \in DOMAIN ns : ns[i].key = n
NoteAt(ns, n) == ns[IndexOf(ns, n)]

\* self._notes[n] = note: an existing key keeps its place in the dict.
PutNote(ns, note) ==
    IF HasNote(ns, note.key)
    THEN [ns EXCEPT ![IndexOf(ns, note.key)] = note]
    ELSE Append(ns, note)

\* Variant of VictimIndex: the first voice of minimal envelope, velocity ignored.
VictimIndexByEnvelope(ns) ==
    CHOOSE i \in DOMAIN ns :
        /\ \A j \in DOMAIN ns : ns[i].envelope <= ns[j].envelope
        /\ \A j \in 1..(i - 1) : ns[j].envelope > ns[i].envelope

\* min(self._notes.items(), key=envelope * velocity): the first minimal item.
VictimIndex(ns) ==
    CHOOSE i \in DOMAIN ns :
        /\ \A j \in DOMAIN ns :
              ns[i].envelope * ns[i].velocity <= ns[j].envelope * ns[j].velocity
        /\ \A j \in 1..(i - 1) :
              ns[j].envelope * ns[j].velocity > ns[i].envelope * ns[i].velocity

\* Variant of StealVoice: the victim is dropped from the table at once.
StealVoiceDelete(ns) ==
    IF ns = << >> THEN ns
    ELSE LET i == VictimIndex(ns) IN
         SubSeq(ns, 1, i - 1) \o SubSeq(ns, i + 1, Len(ns))

\* Variant of StealVoice: the victim's envelope is set to the cap, not capped.
StealVoiceSetsCap(ns) ==
    IF ns = << >> THEN ns
    ELSE LET i == VictimIndex(ns) IN
         [ns EXCEPT ![i] = [@ EXCEPT !.released = TRUE, !.stage = "release",
                                     !.envelope = STEAL_CAP]]

\* SimpleSynth._steal_voice: the voice table afterwards.
StealVoice(ns) ==
    IF ns = << >> THEN ns
    ELSE LET i == VictimIndex(ns) IN
         [ns EXCEPT ![i] = [@ EXCEPT !.released = TRUE, !.stage = "release",
                                     !.envelope = Min(@, STEAL_CAP)]]

\* SimpleSynth._steal_voice: the sustained set afterwards.
StealSustained(ns, held) ==
    IF ns = << >> THEN held ELSE held \ {ns[VictimIndex(ns)].key}

\* Variant of AttackVals: the whole block gets the level at its end.
AttackValsFlat(envelope, step, block) ==
    [k \in 1..block |-> Min(envelope + step * block, EnvOne)]

\* Lines 309-313: the attack ramp of one block, clamped at 1.0.
AttackVals(envelope, step, block) ==
    [k \in 1..block |-> Min(envelope + step * k, EnvOne)]

\* Lines 327-331: the decay ramp of one block, clamped at the sustain level.
DecayVals(envelope, step, block, sustain_level) ==
    [k \in 1..block |-> Max(envelope - step * k, sustain_level)]

\* Variant of PedalVals: a voice held by the pedal keeps its level.
PedalValsHold(envelope, step, block) ==
    [k \in 1..block |-> envelope]

\* Lines 353-357: the pedal ramp of one block, clamped at 0.
PedalVals(envelope, step, block) ==
    [k \in 1..block |-> Max(envelope - step * k, 0)]

\* Variant of ReleaseVals: the ramp without np.maximum(vals, 0.0).
ReleaseValsNoFloor(envelope, step, block) ==
    [k \in 1..block |-> envelope - step * k]

\* Variant of ReleaseVals: the ramp of twice the release time.
ReleaseValsSlow(envelope, step, block) ==
    [k \in 1..block |-> Max(envelope - (step \div 2) * k, 0)]

\* Lines 371-375: the release ramp of one block, clamped at 0.
ReleaseVals(envelope, step, block) ==
    [k \in 1..block |-> Max(envelope - step * k, 0)]

\* SimpleSynth._build_envelope_block: the loop, with `out` the samples written so far.
RECURSIVE EnvLoop(_, _, _, _, _)
EnvLoop(note, p, pedal, num_samples, out) ==
    LET i == Len(out) IN
    IF i >= num_samples THEN [note |-> note, envelope |-> out]
    ELSE IF note.stage = "attack" THEN
        IF p.attack <= 0
        THEN EnvLoop([note EXCEPT !.envelope = EnvOne, !.stage = "decay"],
                     p, pedal, num_samples, out)
        ELSE LET step == EnvOne \div p.attack
                 remaining == Max(1, Ceil(EnvOne - note.envelope, step))
                 block == Min(num_samples - i, remaining)
                 vals == AttackVals(note.envelope, step, block)
                 e == vals[block]
             IN EnvLoop(IF e >= EnvOne
                        THEN [note EXCEPT !.envelope = EnvOne, !.stage = "decay"]
                        ELSE [note EXCEPT !.envelope = e],
                        p, pedal, num_samples, out \o vals)
    ELSE IF note.stage = "decay" THEN
        IF p.decay <= 0
        THEN EnvLoop([note EXCEPT !.envelope = p.sustain_level, !.stage = "sustain"],
                     p, pedal, num_samples, out)
        ELSE LET step == (EnvOne - p.sustain_level) \div p.decay
                 remaining == Max(1, Ceil(note.envelope - p.sustain_level, step))
                 block == Min(num_samples - i, remaining)
                 vals == DecayVals(note.envelope, step, block, p.sustain_level)
                 e == vals[block]
             IN EnvLoop(IF e <= p.sustain_level
                        THEN [note EXCEPT !.envelope = p.sustain_level,
                                          !.stage = "sustain"]
                        ELSE [note EXCEPT !.envelope = e],
                        p, pedal, num_samples, out \o vals)
    ELSE IF note.stage = "sustain" THEN
        IF note.released
        THEN EnvLoop([note EXCEPT !.stage = IF pedal THEN "pedal" ELSE "release"],
                     p, pedal, num_samples, out)
        ELSE [note |-> note,
              envelope |-> out \o [k \in 1..(num_samples - i) |-> note.envelope]]
    ELSE IF note.stage = "pedal" THEN
        IF p.pedal_release <= 0
        THEN EnvLoop([note EXCEPT !.envelope = 0, !.stage = "off"],
                     p, pedal, num_samples, out)
        ELSE LET step == EnvOne \div p.pedal_release
                 remaining == Max(1, Ceil(note.envelope, step))
                 block == Min(num_samples - i, remaining)
                 vals == PedalVals(note.envelope, step, block)
                 e == vals[block]
             IN EnvLoop(IF e <= 0
                        THEN [note EXCEPT !.envelope = 0, !.stage = "off"]
                        ELSE [note EXCEPT !.envelope = e],
                        p, pedal, num_samples, out \o vals)
    ELSE IF note.stage = "release" THEN
        IF p.release <= 0
        THEN EnvLoop([note EXCEPT !.envelope = 0, !.stage = "off"],
                     p, pedal, num_samples, out)
        ELSE LET step == EnvOne \div p.release
                 remaining == Max(1, Ceil(note.envelope, step))
                 block == Min(num_samples - i, remaining)
                 vals == ReleaseVals(note.envelope, step, block)
                 e == vals[block]
             IN EnvLoop(IF e <= 0
                        THEN [note EXCEPT !.envelope = 0, !.stage = "off"]
                        ELSE [note EXCEPT !.envelope = e],
                        p, pedal, num_samples, out \o vals)
    ELSE [note |-> note, envelope |-> out \o [k \in 1..(num_samples - i) |-> 0]]

\* Variant of NonPositive: only a negative time skips the ramp.
NonPositiveStrict(time) == time < 0

\* `if self._attack <= 0:` and its likes on lines 305, 323, 349 and 367.
NonPositive(time) == time <= 0

\* The state of one call of _build_envelope_block before its loop.
LoopState(note, p, pedal, num_samples) ==
    [note |-> note, p |-> p, pedal |-> pedal, num_samples |-> num_samples, out |-> << >>,
     raised |-> FALSE, prev_note |-> note, prev_i |-> 0, passes |-> 0, first |-> note]

\* One ramp of the loop: the step is `span` divided by the time of the stage,
\* `distance` is what is left to the target, `vals` the ramp of a block and
\* `done` whether its last value is the target, where the voice goes on with
\* the stage `next` at `target`.  A time of zero makes the division for the
\* step, a step of zero the division for `remaining`, raise ZeroDivisionError.
Ramp(l, span, time, distance, Vals(_, _, _), done(_), target, next) ==
    IF time = 0 \/ span \div time = 0 THEN [l EXCEPT !.raised = TRUE]
    ELSE LET step == span \div time
             remaining == Max(1, Ceil(distance, step))
             block == Min(l.num_samples - Len(l.out), remaining)
             vals == Vals(l.note.envelope, step, block)
             e == vals[block]
         IN  [l EXCEPT !.out = @ \o vals,
                       !.note = IF done(e)
                                THEN [@ EXCEPT !.envelope = target, !.stage = next]
                                ELSE [@ EXCEPT !.envelope = e]]

\* SimpleSynth._build_envelope_block: one pass of `while i < num_samples`.
EnvPass(l) ==
    LET note == l.note
        p == l.p
        rest == l.num_samples - Len(l.out)
        DecayRamp(envelope, step, block) == DecayVals(envelope, step, block, p.sustain_level)
        AtOne(e) == e >= EnvOne
        AtLevel(e) == e <= p.sustain_level
        AtZero(e) == e <= 0
    IN  IF note.stage = "attack" THEN
            IF NonPositive(p.attack)
            THEN [l EXCEPT !.note = [@ EXCEPT !.envelope = EnvOne, !.stage = "decay"]]
            ELSE Ramp(l, EnvOne, p.attack, EnvOne - note.envelope,
                      AttackVals, AtOne, EnvOne, "decay")
        ELSE IF note.stage = "decay" THEN
            IF NonPositive(p.decay)
            THEN [l EXCEPT !.note = [@ EXCEPT !.envelope = p.sustain_level,
                                              !.stage = "sustain"]]
            ELSE Ramp(l, EnvOne - p.sustain_level, p.decay,
                      note.envelope - p.sustain_level,
                      DecayRamp, AtLevel, p.sustain_level, "sustain")
        ELSE IF note.stage = "sustain" THEN
            IF note.released
            THEN [l EXCEPT !.note = [@ EXCEPT !.stage = IF l.pedal THEN "pedal"
                                                        ELSE "release"]]
            ELSE [l EXCEPT !.out = @ \o [k \in 1..rest |-> note.envelope]]
        ELSE IF note.stage = "pedal" THEN
            IF NonPositive(p.pedal_release)
            THEN [l EXCEPT !.note = [@ EXCEPT !.envelope = 0, !.stage = "off"]]
            ELSE Ramp(l, EnvOne, p.pedal_release, note.envelope,
                      PedalVals, AtZero, 0, "off")
        ELSE IF note.stage = "release" THEN
            IF NonPositive(p.release)
            THEN [l EXCEPT !.note = [@ EXCEPT !.envelope = 0, !.stage = "off"]]
            ELSE Ramp(l, EnvOne, p.release, note.envelope,
                      ReleaseVals, AtZero, 0, "off")
        ELSE [l EXCEPT !.out = @ \o [k \in 1..rest |-> 0]]

\* No call of _build_envelope_block has been made.
LoopInit == loop = LoopState(NewNote(0, 100), INSTRUMENTS(DEFAULT_INSTRUMENT), FALSE, 0)

\* _generate_note calls _build_envelope_block(note, num_samples): the first call.
EnvCall(note, p, pedal, num_samples) ==
    /\ loop.num_samples = 0
    /\ loop' = LoopState(note, p, pedal, num_samples)

\* One pass of the loop of the call in progress.
EnvIterate ==
    /\ Len(loop.out) < loop.num_samples
    /\ ~loop.raised
    /\ loop' = [EnvPass(loop) EXCEPT !.prev_note = loop.note, !.prev_i = Len(loop.out),
                                      !.passes = loop.passes + 1]

\* SimpleSynth._build_envelope_block(note, num_samples)
BuildEnvelopeBlock(note, p, pedal, num_samples) ==
    EnvLoop(note, p, pedal, num_samples, << >>)

Op(op, n) == [op |-> op, note |-> n]

\* State after SimpleSynth.__init__(instrument=name), with the engine's buffer size.
SynthInit ==
    /\ notes = << >>
    /\ sustain = FALSE
    /\ sustained_notes = {}
    /\ instrument \in InstrumentNames
    /\ prof = INSTRUMENTS(instrument)
    /\ buffer_size \in BufferSizes
    /\ last = Op("init", -1)

ThreadInit ==
    /\ lock = "free"
    /\ set_pc = 0
    /\ set_target = DEFAULT_INSTRUMENT

\* No voice has been struck yet.
ClockInit ==
    clk = [since_on |-> -1, since_off |-> -1, off_env |-> 0, off_stage |-> "none",
           held |-> FALSE, dry |-> FALSE]

\* SimpleSynth.note_on(note_number, velocity)
NoteOn(n, v) ==
    LET full == Len(notes) >= MAX_VOICES
        afterSteal == IF full THEN StealVoice(notes) ELSE notes
    IN /\ notes' = PutNote(afterSteal, NewNote(n, v))
       /\ sustained_notes' = IF full THEN StealSustained(notes, sustained_notes)
                             ELSE sustained_notes
       /\ last' = Op("note_on", n)
       /\ UNCHANGED <<sustain, instrument, prof, buffer_size>>

\* Variant of NoteOff: the pedal is not consulted, the voice always releases.
NoteOffIgnoresPedal(n) ==
    /\ IF HasNote(notes, n)
       THEN notes' = [notes EXCEPT ![IndexOf(notes, n)] =
                         [@ EXCEPT !.released = TRUE, !.stage = "release"]]
       ELSE UNCHANGED notes
    /\ last' = Op("note_off", n)
    /\ UNCHANGED <<sustained_notes, sustain, instrument, prof, buffer_size>>

\* SimpleSynth.note_off(note_number)
NoteOff(n) ==
    /\ IF HasNote(notes, n)
       THEN /\ notes' = [notes EXCEPT ![IndexOf(notes, n)] =
                            [@ EXCEPT !.released = TRUE,
                                      !.stage = IF sustain THEN "pedal" ELSE "release"]]
            /\ sustained_notes' = IF sustain THEN sustained_notes \cup {n}
                                  ELSE sustained_notes
       ELSE UNCHANGED <<notes, sustained_notes>>
    /\ last' = Op("note_off", n)
    /\ UNCHANGED <<sustain, instrument, prof, buffer_size>>

\* SimpleSynth.sustain_on()
SustainOn ==
    /\ sustain' = TRUE
    /\ last' = Op("sustain_on", -1)
    /\ UNCHANGED <<notes, sustained_notes, instrument, prof, buffer_size>>

\* The keys of the voices in stage pedal.
PedalKeys(ns) == {ns[i].key : i \in {j \in DOMAIN ns : ns[j].stage = "pedal"}}

\* Variant of SustainOff: the set is cleared but the held voices are left alone.
SustainOffClearsOnly ==
    /\ sustain' = FALSE
    /\ sustained_notes' = {}
    /\ last' = Op("sustain_off", Cardinality(PedalKeys(notes)))
    /\ UNCHANGED <<notes, instrument, prof, buffer_size>>

\* SimpleSynth.sustain_off()
SustainOff ==
    /\ sustain' = FALSE
    /\ notes' = [i \in DOMAIN notes |->
                    IF notes[i].key \in sustained_notes
                    THEN [notes[i] EXCEPT !.released = TRUE, !.stage = "release"]
                    ELSE notes[i]]
    /\ sustained_notes' = {}
    /\ last' = Op("sustain_off", Cardinality(PedalKeys(notes)))
    /\ UNCHANGED <<instrument, prof, buffer_size>>

\* SimpleSynth.generate: every voice after its envelope block (lines 182-187).
Generated(ns, p, pedal, num_samples) ==
    [i \in DOMAIN ns |-> BuildEnvelopeBlock(ns[i], p, pedal, num_samples).note]

\* SimpleSynth.generate: del self._notes[note_num] for the voices that are off.
RemoveOff(ns) == SelectSeq(ns, LAMBDA x : x.stage # "off")

\* SimpleSynth.generate(num_samples): the voice table.
Generate(num_samples) ==
    /\ notes' = RemoveOff(Generated(notes, prof, sustain, num_samples))
    /\ last' = Op("generate", Len(notes) - Len(notes'))
    /\ UNCHANGED <<sustain, sustained_notes, instrument, prof, buffer_size>>

\* ------------------------------------------------------------- SimpleSynth profile

\* Fixed point value of a filter coefficient 1.0.
FilterOne == 1000
\* sample_rate: int = 44100, and 2 * pi in thousandths.
SAMPLE_RATE == 44100
TWO_PI_MILLI == 6283

\* SimpleSynth.INSTRUMENTS: the filter part of a profile (hp_hz, lp_hz).
FILTERS(name) ==
    IF name = "Guitar" THEN [hp_hz |-> 40, lp_hz |-> 5600]
    ELSE [hp_hz |-> 28, lp_hz |-> 7600]

\* SimpleSynth._recompute_filter_coeffs: hp_rc / (hp_rc + dt) is
\* sample_rate / (sample_rate + 2 pi hz), dt / (lp_rc + dt) is
\* 2 pi hz / (sample_rate + 2 pi hz).
RecomputeFilterCoeffs(f) ==
    LET hp_w == (TWO_PI_MILLI * Max(1, f.hp_hz)) \div 1000
        lp_w == (TWO_PI_MILLI * Max(1, f.lp_hz)) \div 1000
    IN  [f EXCEPT !.hp_alpha = (FilterOne * SAMPLE_RATE) \div (SAMPLE_RATE + hp_w),
                  !.lp_alpha = (FilterOne * lp_w) \div (SAMPLE_RATE + lp_w)]

\* Lines 118-120: the filter history is zeroed.
ResetHistory(f) == [f EXCEPT !.hp_prev_x = 0, !.hp_prev_y = 0, !.lp_prev_y = 0]

\* Variant of InstrumentFor: an unknown name is kept.
InstrumentForAny(name) == name

\* Line 104: the name stored, the default for a name that is no profile.
InstrumentFor(name) == IF name \in InstrumentNames THEN name ELSE DEFAULT_INSTRUMENT

\* The filter of a synthesizer just built for the instrument (__init__, which
\* ends in set_instrument).
FilterOf(name) ==
    ResetHistory(RecomputeFilterCoeffs(
        [hp_hz |-> FILTERS(name).hp_hz, lp_hz |-> FILTERS(name).lp_hz,
         hp_alpha |-> 0, lp_alpha |-> 0, hp_prev_x |-> 0, hp_prev_y |-> 0, lp_prev_y |-> 0]))

FilterInit ==
    /\ filt = FilterOf(instrument)
    /\ ilast = [name |-> "", before |-> FilterOf(instrument)]

\* SimpleSynth.set_instrument(instrument), from its first to its last line.
SetInstrument(name) ==
    /\ instrument' = InstrumentFor(name)
    /\ prof' = INSTRUMENTS(name)
    /\ filt' = ResetHistory(RecomputeFilterCoeffs(
                   [filt EXCEPT !.hp_hz = FILTERS(name).hp_hz, !.lp_hz = FILTERS(name).lp_hz]))
    /\ ilast' = [name |-> name, before |-> filt]
    /\ last' = Op("set_instrument", 0)
    /\ UNCHANGED <<notes, sustain, sustained_notes, buffer_size>>

\* SimpleSynth._apply_output_filter: the loop over the samples of the buffer.
RECURSIVE ApplyOutputFilter(_, _)
ApplyOutputFilter(buffer, f) ==
    IF buffer = << >> THEN f
    ELSE LET x == Head(buffer)
             hp == (f.hp_alpha * (f.hp_prev_y + x - f.hp_prev_x)) \div FilterOne
             lp == f.lp_prev_y + (f.lp_alpha * (hp - f.lp_prev_y)) \div FilterOne
         IN  ApplyOutputFilter(Tail(buffer),
                               [f EXCEPT !.hp_prev_x = x, !.hp_prev_y = hp, !.lp_prev_y = lp])

\* generate(num_samples) whose mixed and limited buffer is `buffer`: the voice
\* table, and the filter history after _apply_output_filter.
GenerateFiltered(buffer) ==
    /\ Generate(Len(buffer))
    /\ filt' = ApplyOutputFilter(buffer, filt)
    /\ UNCHANGED ilast

\* ------------------------------------------------------------- MIDI input

\* parse_midi_message(data): data are the raw bytes of one message.
ParseMidiMessage(data) ==
    LET unknown == [type |-> "unknown", note |-> -1, velocity |-> -1, value |-> FALSE]
        status == IF Len(data) < 1 THEN -1 ELSE (data[1] \div 16) * 16
    IN  IF Len(data) < 1 THEN unknown
        ELSE IF status = 144 /\ Len(data) >= 3
        THEN IF data[3] = 0
             THEN [unknown EXCEPT !.type = "note_off", !.note = data[2]]
             ELSE [unknown EXCEPT !.type = "note_on", !.note = data[2], !.velocity = data[3]]
        ELSE IF status = 128 /\ Len(data) >= 3
        THEN [unknown EXCEPT !.type = "note_off", !.note = data[2]]
        ELSE IF status = 176 /\ Len(data) >= 3 /\ data[2] = 64
        THEN [unknown EXCEPT !.type = "sustain", !.value = (data[3] >= 64)]
        ELSE unknown

\* PianoPlayerController._on_midi_message(msg): the call on the synthesizer.
OnMidiMessage(msg) ==
    IF msg.type = "note_on" THEN NoteOn(msg.note, msg.velocity)
    ELSE IF msg.type = "note_off" THEN NoteOff(msg.note)
    ELSE IF msg.value THEN SustainOn
    ELSE SustainOff

\* MidiInputHandler._midi_callback: a message that parses is handed to the
\* registered callback; one that does not is dropped.
MidiCallback(data) ==
    LET parsed == ParseMidiMessage(data)
    IN  IF parsed.type # "unknown" THEN OnMidiMessage(parsed)
        ELSE /\ last' = Op("unknown", -1)
             /\ UNCHANGED <<notes, sustain, sustained_notes, instrument, prof, buffer_size>>

\* The history of a call that is not a watched generate().
SplitState(op) ==
    [op |-> op, a |-> 0, b |-> 0, before |-> << >>, whole |-> << >>, parts |-> << >>,
     single |-> << >>]

SplitInit == split = SplitState("init")

\* generate() called once for each of the sample counts, for one voice: its
\* envelope blocks one after the other and the voice at the end.  A voice that
\* a call leaves off is deleted from the table and adds nothing to the buffers
\* of the later calls.
RECURSIVE GenerateInParts(_, _, _, _, _)
GenerateInParts(note, p, pedal, counts, out) ==
    IF counts = << >> THEN [note |-> note, envelope |-> out]
    ELSE IF note.stage = "off"
    THEN GenerateInParts(note, p, pedal, Tail(counts),
                         out \o [k \in 1..Head(counts) |-> 0])
    ELSE LET this == BuildEnvelopeBlock(note, p, pedal, Head(counts))
         IN  GenerateInParts(this.note, p, pedal, Tail(counts), out \o this.envelope)

\* generate(a + b), with the history of what generate(a) followed by
\* generate(b), and a + b times generate(1), make of the same voices.
GenerateWatched(a, b) ==
    /\ Generate(a + b)
    /\ split' = [op |-> "generate", a |-> a, b |-> b, before |-> notes,
                 whole |-> [i \in DOMAIN notes |->
                               BuildEnvelopeBlock(notes[i], prof, sustain, a + b)],
                 parts |-> [i \in DOMAIN notes |->
                               GenerateInParts(notes[i], prof, sustain, <<a, b>>, << >>)],
                 single |-> [i \in DOMAIN notes |->
                                GenerateInParts(notes[i], prof, sustain,
                                                [k \in 1..(a + b) |-> 1], << >>)]]

\* ------------------------------------------------------------- SimpleSynth limiter

\* LIMITER_TARGET_PEAK = 0.92, LIMITER_ATTACK = 0.30, LIMITER_RELEASE = 0.08
LIMITER_TARGET_PEAK == (92 * GainOne) \div 100
LIMITER_ATTACK == (30 * GainOne) \div 100
LIMITER_RELEASE == (8 * GainOne) \div 100

\* float(np.max(np.abs(buffer)))
Abs(x) == IF x < 0 THEN -x ELSE x
Peak(buffer) == CHOOSE m \in {Abs(buffer[i]) : i \in DOMAIN buffer} :
                    \A i \in DOMAIN buffer : Abs(buffer[i]) <= m

\* SimpleSynth._smooth_gain(current, target, attack, release)
SmoothGain(current, target, attack, release) ==
    LET coeff == Max(0, Min(GainOne, IF target < current THEN attack ELSE release))
    IN current + ((target - current) * coeff) \div GainOne

\* SimpleSynth._apply_limiter(buffer): the new limiter gain.
LimiterGain(gain, buffer) ==
    IF Peak(buffer) <= 0 THEN Min(GainOne, gain + LIMITER_RELEASE)
    ELSE SmoothGain(gain, Min(GainOne, (LIMITER_TARGET_PEAK * GainOne) \div Peak(buffer)),
                    LIMITER_ATTACK, LIMITER_RELEASE)

\* State after SimpleSynth.__init__: self._limiter_gain = 1.0
LimiterInit ==
    /\ limiter_gain = GainOne
    /\ lim_in = << >>
    /\ lim_out = << >>

\* SimpleSynth._apply_limiter(buffer), the limiter stage of one generate().
ApplyLimiter(buffer) ==
    /\ limiter_gain' = LimiterGain(limiter_gain, buffer)
    /\ lim_in' = buffer
    /\ lim_out' = IF Peak(buffer) <= 0 THEN buffer
                  ELSE [i \in DOMAIN buffer |-> (buffer[i] * limiter_gain') \div GainOne]

\* ------------------------------------------------------------- AudioEngine

EOp(op, ret) == [op |-> op, ret |-> ret]

\* State after AudioEngine.__init__ (volume 0.8).
EngineInit ==
    /\ volume = (8 * VolOne) \div 10
    /\ synth_ref = 0
    /\ stream = 0
    /\ running = FALSE
    /\ output_device = -1
    /\ streams = {}
    /\ active = {}
    /\ mix_queue = << >>
    /\ mix_current = NoClip
    /\ mix_index = 0
    /\ audio_callback_fn = FALSE
    /\ outdata = << >>
    /\ sink_data = << >>
    /\ elast = EOp("init", TRUE)
    /\ dlast = [arg |-> -1, previous |-> -1, was_running |-> FALSE, old_stream |-> 0,
                trace |-> << >>, ret |-> TRUE, raised |-> FALSE]

\* The stream fields of the engine as one record.
StreamState == [stream |-> stream, running |-> running, output_device |-> output_device,
                streams |-> streams, active |-> active, raised |-> FALSE,
                trace |-> << >>]

\* The handle of a stream sd.OutputStream(...) opens.
NewStream(open) == CHOOSE id \in 1..(MaxStreams + 1) : id \notin open

\* AudioEngine.start() on stream state e: sd.OutputStream(...) may raise, then
\* nothing is assigned; self._stream.start() may raise, then _running stays.
\* The stream self._stream referred to before is neither stopped nor closed.
\* e.trace gains the device the stream is opened on (device=self._output_device).
DoStart(e, outcome) ==
    LET t == Append(e.trace, <<"start", e.output_device>>) IN
    IF outcome = "open_fails" THEN [e EXCEPT !.raised = TRUE, !.trace = t]
    ELSE LET id == NewStream(e.streams) IN
         IF outcome = "start_fails"
         THEN [e EXCEPT !.stream = id, !.streams = @ \cup {id}, !.raised = TRUE,
                        !.trace = t]
         ELSE [e EXCEPT !.stream = id, !.streams = @ \cup {id}, !.active = @ \cup {id},
                        !.running = TRUE, !.raised = FALSE, !.trace = t]

\* AudioEngine.stop() on stream state e; e.trace gains the stream it closes.
DoStop(e) ==
    IF e.stream # 0
    THEN [e EXCEPT !.running = FALSE, !.streams = @ \ {e.stream},
                   !.active = @ \ {e.stream}, !.stream = 0,
                   !.trace = Append(@, <<"stop", e.stream>>)]
    ELSE [e EXCEPT !.running = FALSE]

\* Variant of RestoreDevice: the previous device is not put back.
RestoreDeviceSkipped(e, previous) == [e EXCEPT !.raised = FALSE]

\* Line 111, in the except clause: self._output_device = previous.
RestoreDevice(e, previous) == [e EXCEPT !.output_device = previous, !.raised = FALSE]

\* AudioEngine.set_output_device(device_index) on stream state e, with the
\* outcomes of the (at most two) start() calls it makes: the state and the result.
DoSetOutputDevice(e, device_index, o1, o2) ==
    LET dev == IF device_index # -1 /\ device_index < 0 THEN -1 ELSE device_index
    IN IF e.output_device = dev THEN [e |-> e, ret |-> TRUE]
       ELSE LET previous == e.output_device
                was_running == e.running
                e1 == IF was_running THEN DoStop(e) ELSE e
                e2 == [e1 EXCEPT !.output_device = dev]
            IN IF ~was_running THEN [e |-> e2, ret |-> TRUE]
               ELSE LET e3 == DoStart(e2, o1) IN
                    IF ~e3.raised THEN [e |-> e3, ret |-> TRUE]
                    ELSE LET e4 == RestoreDevice(e3, previous)
                             e5 == IF previous # dev THEN DoStart(e4, o2) ELSE e4
                         IN [e |-> [e5 EXCEPT !.raised = FALSE], ret |-> FALSE]

SetStreamState(e) ==
    /\ stream' = e.stream
    /\ running' = e.running
    /\ output_device' = e.output_device
    /\ streams' = e.streams
    /\ active' = e.active

\* AudioEngine.start()
EngineStart(outcome) ==
    /\ Cardinality(streams) < MaxStreams
    /\ LET e == DoStart(StreamState, outcome) IN
       /\ SetStreamState(e)
       /\ elast' = EOp("start", ~e.raised)
    /\ UNCHANGED <<mixVars, dlast>>

\* AudioEngine.stop()
EngineStop ==
    /\ SetStreamState(DoStop(StreamState))
    /\ elast' = EOp("stop", TRUE)
    /\ UNCHANGED <<mixVars, dlast>>

\* AudioEngine.set_output_device(device_index)
SetOutputDevice(device_index, o1, o2) ==
    /\ Cardinality(streams) + 1 < MaxStreams
    /\ LET r == DoSetOutputDevice(StreamState, device_index, o1, o2) IN
       /\ SetStreamState(r.e)
       /\ elast' = EOp("set_output_device", r.ret)
       /\ dlast' = [arg |-> device_index, previous |-> output_device,
                    was_running |-> running, old_stream |-> stream,
                    trace |-> r.e.trace, ret |-> r.ret, raised |-> r.e.raised]
    /\ UNCHANGED mixVars

\* Variant of SetVolume: the value is stored as given.
SetVolumeStored(value) ==
    /\ volume' = value
    /\ elast' = EOp("volume", TRUE)
    /\ UNCHANGED <<streamVars, synth_ref, mix_queue, mix_current, mix_index,
                   audio_callback_fn, outdata, sink_data>>

\* The volume setter: max(0.0, min(1.0, value)).
SetVolume(value) ==
    /\ volume' = Max(0, Min(VolOne, value))
    /\ elast' = EOp("volume", TRUE)
    /\ UNCHANGED <<streamVars, synth_ref, mix_queue, mix_current, mix_index,
                   audio_callback_fn, outdata, sink_data>>

\* No value has been handed to the volume setter.
VolumeInit == vlast = << >>

\* engine.volume = value by the controller, the value kept for reference.
VolumeCall(value) == SetVolume(value) /\ vlast' = <<value>>

\* AudioEngine.set_synth(synth)
SetSynth(synth) ==
    /\ synth_ref' = synth
    /\ elast' = EOp("set_synth", TRUE)
    /\ UNCHANGED <<streamVars, volume, mix_queue, mix_current, mix_index,
                   audio_callback_fn, outdata, sink_data>>

\* AudioEngine.set_audio_callback(callback)
SetAudioCallback(callback) ==
    /\ audio_callback_fn' = callback
    /\ elast' = EOp("set_audio_callback", TRUE)
    /\ UNCHANGED <<streamVars, volume, synth_ref, mix_queue, mix_current, mix_index,
                   outdata, sink_data>>

\* AudioEngine.queue_audio(samples): empty input is ignored.
DoQueueAudio(samples) ==
    /\ mix_queue' = IF Len(samples) = 0 THEN mix_queue ELSE Append(mix_queue, samples)
    /\ elast' = EOp("queue_audio", Len(samples) # 0)
    /\ UNCHANGED <<streamVars, volume, synth_ref, mix_current, mix_index,
                   audio_callback_fn, outdata, sink_data>>

\* queue_audio with at most MaxQueue clips waiting.
QueueAudio(samples) == Len(mix_queue) < MaxQueue /\ DoQueueAudio(samples)

\* The sample written without np.clip.
ClipSampleOff(x) == x

\* np.clip(x, -1.0, 1.0) of one sample.
ClipSample(x) == Max(-Full, Min(Full, x))

\* Variant of MixInto: the clip is read from its start in every callback.
MixIntoFromStart(buffer, clip, index, count, vol) ==
    [i \in DOMAIN buffer |->
        IF i <= count THEN buffer[i] + clip[i] * vol ELSE buffer[i]]

\* Lines 156-158: buffer[:count] += clip[index:index + count] * volume.
MixInto(buffer, clip, index, count, vol) ==
    [i \in DOMAIN buffer |->
        IF i <= count THEN buffer[i] + clip[index + i] * vol ELSE buffer[i]]

\* Variant of SynthToCall: self._synth is read again for the call.
SynthToCallReread(synth) == synth_ref

\* Lines 135-137: generate is called on the local `synth`, read once.
SynthToCall(synth) == synth

\* Lines 136-140: the callback's buffer before any clip is mixed in, the
\* synthesizer called returning the samples g.
BaseBuffer(called, g) ==
    IF called # 0 THEN [i \in 1..buffer_size |-> g[i] * volume]
    ELSE [i \in 1..buffer_size |-> 0]

\* AudioEngine._audio_callback(outdata, frames, ...) of stream s from the point
\* where self._synth has been read into the local `synth`, the synthesizer
\* called returning the samples g.
CallbackBody(s, synth, g) ==
    /\ s \in active
    /\ LET frames == buffer_size
           base == BaseBuffer(IF synth # 0 THEN SynthToCall(synth) ELSE 0, g)
           fetch == mix_current = NoClip /\ mix_queue # << >>
           cur == IF fetch THEN Head(mix_queue) ELSE mix_current
           index == IF fetch THEN 0 ELSE mix_index
           remaining == Len(cur) - index
           mixing == cur # NoClip /\ remaining > 0
           count == Min(frames, remaining)
           buffer == IF mixing THEN MixInto(base, cur, index, count, volume) ELSE base
       IN /\ mix_queue' = IF fetch THEN Tail(mix_queue) ELSE mix_queue
          /\ mix_index' = IF mixing THEN index + count ELSE index
          /\ mix_current' = IF mixing /\ index + count < Len(cur) THEN cur ELSE NoClip
          /\ outdata' = [i \in 1..frames |-> ClipSample(buffer[i])]
          /\ sink_data' = IF audio_callback_fn THEN buffer ELSE << >>
    /\ elast' = EOp("callback", TRUE)
    /\ UNCHANGED <<streamVars, volume, synth_ref, audio_callback_fn>>

\* AudioEngine._audio_callback(outdata, frames, ...) of stream s as one step.
AudioCallback(s, g) == CallbackBody(s, synth_ref, g)

\* State of the callback in progress: nothing is running.
CallbackInit ==
    cb = [pc |-> 0, stream |-> 0, synth |-> 0, calls |-> << >>, seen |-> {}]

\* Line 135, synth = self._synth: the callback of stream s starts and reads the
\* reference.
CallbackRead(s) ==
    /\ cb.pc = 0
    /\ s \in active
    /\ cb' = [pc |-> 1, stream |-> s, synth |-> synth_ref, calls |-> << >>,
              seen |-> {synth_ref}]
    /\ UNCHANGED engineVars

\* Lines 136-167: the rest of that callback.
CallbackFinish(g) ==
    /\ cb.pc = 1
    /\ CallbackBody(cb.stream, cb.synth, g)
    /\ cb' = [cb EXCEPT !.pc = 0,
                        !.calls = IF cb.synth # 0 THEN <<SynthToCall(cb.synth)>>
                                  ELSE << >>]

\* AudioEngine.set_synth(synth) on the control thread, possibly while a
\* callback is between its read and its generate call.
SwapSynth(synth) ==
    /\ SetSynth(synth)
    /\ cb' = IF cb.pc = 1 THEN [cb EXCEPT !.seen = @ \cup {synth}] ELSE cb

\* No clip has been queued or heard.
ClipsInit == aux = [n |-> 0, queued |-> << >>, mixed |-> << >>]

\* The clip samples in a buffer handed to the recording sink of an engine
\* without synthesizer: the leading samples that are not silence, the volume
\* taken out again.
RECURSIVE Heard(_, _)
Heard(buffer, vol) ==
    IF buffer = << >> \/ Head(buffer) = 0 THEN << >>
    ELSE <<Head(buffer) \div vol>> \o Heard(Tail(buffer), vol)

\* queue_audio(samples) by the metronome, at most MaxClips clips in all.
QueueClip(samples) ==
    /\ aux.n < MaxClips
    /\ DoQueueAudio(samples)
    /\ aux' = IF Len(samples) = 0 THEN aux
              ELSE [aux EXCEPT !.n = @ + 1, !.queued = @ \o samples]

\* A callback of an engine without synthesizer whose buffers reach the sink.
ClipCallback(s, g) ==
    /\ synth_ref = 0
    /\ audio_callback_fn
    /\ volume > 0
    /\ AudioCallback(s, g)
    /\ aux' = [aux EXCEPT !.mixed = @ \o Heard(sink_data', volume)]

\* What generate(frames) of a synthesizer may return.
SynthBuffers == [1..buffer_size -> SynthSamples]

\* PianoPlayerController.start(), line 493: the engine is started once.
ControllerStart == stream = 0 /\ EngineStart("ok")

\* ------------------------------------------------------------- Metronome

\* Metronome.__init__: self._bpm = 120; controller.__init__: _count_in_beats = 4.
DEFAULT_BPM == 120
DEFAULT_COUNT_IN_BEATS == 4

\* self._beat_interval = 60.0 / self._bpm, in ticks.
BeatInterval(bpm) == (60 * TicksPerSecond) \div bpm

MOp(op) == [op |-> op, beats |-> 0, clicks |-> 0, late |-> 0, accent |-> "none", arg |-> 0]

\* State after PianoPlayerController.__init__ built its Metronome: the click
\* callback is AudioEngine.queue_audio, the meter is set_meter(4, 4).
MetroInit ==
    /\ now = 0
    /\ m_running = FALSE
    /\ m_bpm = DEFAULT_BPM
    /\ m_next_beat_at = NoTime
    /\ m_beats_per_cycle = DEFAULT_COUNT_IN_BEATS
    /\ m_accent_beat = DEFAULT_COUNT_IN_BEATS
    /\ m_beat_index = 0
    /\ m_timer = NoTime
    /\ m_click_callback = TRUE
    /\ metronome_enabled = FALSE
    /\ count_in_enabled = FALSE
    /\ count_in_beats = DEFAULT_COUNT_IN_BEATS
    /\ count_in_remaining = 0
    /\ count_in_active = FALSE
    /\ recording = FALSE
    /\ mlast = MOp("init")

\* The metronome and the controller fields its beat handler uses, as one record
\* on which one operation (op) is about to run. beats, clicks and late count what
\* the operation delivers: beat signals, click callbacks, and those of them
\* delivered while the metronome is stopped; accent is the click it selected and
\* arg the value it was handed.
MetroState(op) ==
    [op |-> op, beats |-> 0, clicks |-> 0, late |-> 0, accent |-> "none", arg |-> 0,
     running |-> m_running, bpm |-> m_bpm, next_beat_at |-> m_next_beat_at,
     beats_per_cycle |-> m_beats_per_cycle, accent_beat |-> m_accent_beat,
     beat_index |-> m_beat_index, timer |-> m_timer,
     metronome_enabled |-> metronome_enabled, count_in_enabled |-> count_in_enabled,
     count_in_beats |-> count_in_beats, count_in_remaining |-> count_in_remaining,
     count_in_active |-> count_in_active, recording |-> recording,
     audio_callback_fn |-> audio_callback_fn]

SetMetroState(st) ==
    /\ m_running' = st.running
    /\ m_bpm' = st.bpm
    /\ m_next_beat_at' = st.next_beat_at
    /\ m_beats_per_cycle' = st.beats_per_cycle
    /\ m_accent_beat' = st.accent_beat
    /\ m_beat_index' = st.beat_index
    /\ m_timer' = st.timer
    /\ metronome_enabled' = st.metronome_enabled
    /\ count_in_enabled' = st.count_in_enabled
    /\ count_in_beats' = st.count_in_beats
    /\ count_in_remaining' = st.count_in_remaining
    /\ count_in_active' = st.count_in_active
    /\ recording' = st.recording
    /\ audio_callback_fn' = st.audio_callback_fn
    /\ mlast' = [op |-> st.op, beats |-> st.beats, clicks |-> st.clicks, late |-> st.late,
                 accent |-> st.accent, arg |-> st.arg]
    /\ UNCHANGED m_click_callback

\* Metronome.stop()
MetronomeStop(st) ==
    [st EXCEPT !.running = FALSE, !.next_beat_at = NoTime, !.timer = NoTime]

\* Metronome._schedule_next_beat(now): delay_ms = max(1, ...); self._timer.start(delay_ms)
ScheduleNextBeat(st) ==
    IF ~st.running \/ st.next_beat_at = NoTime THEN st
    ELSE [st EXCEPT !.timer = now + Max(1, st.next_beat_at - now)]

\* PianoPlayerController._start_recording(): the recording sink is installed.
StartRecording(st) == [st EXCEPT !.recording = TRUE, !.audio_callback_fn = TRUE]

\* PianoPlayerController._stop_recording()
StopRecording(st) ==
    IF st.recording THEN [st EXCEPT !.recording = FALSE, !.audio_callback_fn = FALSE]
    ELSE st

\* PianoPlayerController._on_metronome_beat(), the slot connected to Metronome.beat.
OnMetronomeBeat(st) ==
    IF ~st.count_in_active \/ st.count_in_remaining <= 0 THEN st
    ELSE LET s1 == [st EXCEPT !.count_in_remaining = @ - 1] IN
         IF s1.count_in_remaining > 0 THEN s1
         ELSE LET s2 == [s1 EXCEPT !.count_in_active = FALSE]
                  s3 == IF ~s2.metronome_enabled /\ s2.running THEN MetronomeStop(s2) ELSE s2
              IN StartRecording(s3)

\* self.beat.emit(): the signal is delivered, its slot runs before emit() returns.
EmitBeat(st) ==
    OnMetronomeBeat([st EXCEPT !.beats = @ + 1,
                               !.late = @ + (IF st.running THEN 0 ELSE 1)])

\* Variant of IsAccent: the beat before the accent beat is the accented one.
IsAccentEarly(st, beat_index) == beat_index + 1 = st.accent_beat

\* Line 102: is_accent = self._beat_index == self._accent_beat
IsAccent(st, beat_index) == beat_index = st.accent_beat

\* self._click_callback(samples.copy()), after the beat counter moved; accent is
\* the click selected (_accent_click_samples or _click_samples).
ClickCallback(st) ==
    IF m_click_callback
    THEN [st EXCEPT !.beat_index = (@ % st.beats_per_cycle) + 1,
                    !.accent = IF IsAccent(st, (st.beat_index % st.beats_per_cycle) + 1)
                               THEN "accent" ELSE "normal",
                    !.clicks = @ + 1,
                    !.late = @ + (IF st.running THEN 0 ELSE 1)]
    ELSE st

\* Variant of CatchUp: the deadline is one interval after the firing.
CatchUpFromNow(next_beat_at, interval) == now + interval

\* Variant of CatchUp: one interval is added and nothing more.
CatchUpOnce(next_beat_at, interval) == next_beat_at

\* The deadline after _next_beat_at += interval and the catch-up loop
\* while self._next_beat_at <= now: self._next_beat_at += self._beat_interval.
RECURSIVE CatchUp(_, _)
CatchUp(next_beat_at, interval) ==
    IF next_beat_at <= now THEN CatchUp(next_beat_at + interval, interval)
    ELSE next_beat_at

\* Metronome._on_beat()
OnBeat(st) ==
    IF ~st.running THEN st
    ELSE LET s1 == EmitBeat(st)
             s2 == ClickCallback(s1)
             base == IF s2.next_beat_at = NoTime THEN now ELSE s2.next_beat_at
             s3 == [s2 EXCEPT !.next_beat_at =
                                 CatchUp(base + BeatInterval(s2.bpm), BeatInterval(s2.bpm))]
         IN ScheduleNextBeat(s3)

\* Metronome.start()
MetronomeStart(st) ==
    IF st.running THEN st
    ELSE OnBeat([st EXCEPT !.running = TRUE, !.beat_index = 0, !.next_beat_at = now])

\* The bpm setter.
SetBpm(st, value) ==
    LET s1 == [st EXCEPT !.bpm = Max(20, Min(300, value))] IN
    IF s1.running
    THEN ScheduleNextBeat([s1 EXCEPT !.next_beat_at = now + BeatInterval(s1.bpm)])
    ELSE s1

\* Variant of SetMeter: the accent beat is not capped at beats_per_cycle.
SetMeterNoCap(st, beats_per_cycle, accent_beat) ==
    [st EXCEPT !.beats_per_cycle = Max(1, beats_per_cycle),
               !.accent_beat = Max(1, accent_beat)]

\* Metronome.set_meter(beats_per_cycle, accent_beat)
SetMeter(st, beats_per_cycle, accent_beat) ==
    LET b == Max(1, beats_per_cycle) IN
    [st EXCEPT !.beats_per_cycle = b, !.accent_beat = Min(b, Max(1, accent_beat))]

\* Metronome.set_meter(beats_per_cycle): accent_beat is None.
SetMeterDefault(st, beats_per_cycle) ==
    SetMeter(st, beats_per_cycle, Max(1, beats_per_cycle))

\* Metronome.reset_counter()
ResetCounter(st) == [st EXCEPT !.beat_index = 0]

\* Variant of StartCountIn: the count-in waits for one beat more.
StartCountInLong(st) ==
    LET s1 == [st EXCEPT !.count_in_active = TRUE,
                         !.count_in_remaining = st.count_in_beats + 1,
                         !.beat_index = 0]
    IN IF ~s1.running THEN MetronomeStart(s1) ELSE s1

\* PianoPlayerController._start_count_in()
StartCountIn(st) ==
    LET s1 == [st EXCEPT !.count_in_active = TRUE,
                         !.count_in_remaining = st.count_in_beats,
                         !.beat_index = 0]
    IN IF ~s1.running THEN MetronomeStart(s1) ELSE s1

\* PianoPlayerController._cancel_count_in()
CancelCountIn(st) ==
    IF ~st.count_in_active THEN st
    ELSE LET s1 == [st EXCEPT !.count_in_active = FALSE, !.count_in_remaining = 0] IN
         IF ~s1.metronome_enabled /\ s1.running THEN MetronomeStop(s1) ELSE s1

\* The timer's timeout: it is single shot, and it may fire late.
TimerTimeout ==
    /\ m_timer # NoTime
    /\ now >= m_timer
    /\ SetMetroState(OnBeat([MetroState("timeout") EXCEPT !.timer = NoTime]))
    /\ UNCHANGED now

\* PianoPlayerController._on_metronome_toggled(on)
MetronomeToggled(on) ==
    /\ LET s1 == [MetroState("metronome_toggled") EXCEPT !.metronome_enabled = on] IN
       SetMetroState(IF on THEN MetronomeStart(s1)
                     ELSE IF ~s1.count_in_active THEN MetronomeStop(s1) ELSE s1)
    /\ UNCHANGED now

\* PianoPlayerController._on_metronome_bpm_changed(bpm)
MetronomeBpmChanged(bpm) ==
    /\ SetMetroState(SetBpm([MetroState("bpm") EXCEPT !.arg = bpm], bpm))
    /\ UNCHANGED now

\* PianoPlayerController._on_count_in_enabled_changed(enabled)
CountInEnabledChanged(enabled) ==
    /\ SetMetroState([MetroState("count_in_enabled") EXCEPT !.count_in_enabled = enabled])
    /\ UNCHANGED now

\* PianoPlayerController._on_count_in_beats_changed(beats)
CountInBeatsChanged(beats) ==
    /\ LET s1 == [MetroState("count_in_beats") EXCEPT !.count_in_beats = Max(1, beats)]
           s2 == SetMeter(s1, s1.count_in_beats, s1.count_in_beats)
       IN SetMetroState([s2 EXCEPT !.beat_index = 0])
    /\ UNCHANGED now

\* PianoPlayerController._on_record_toggled(recording), is_playing being what
\* self._window.falling_notes.is_playing() answers.
RecordToggled(on, is_playing) ==
    /\ LET st == MetroState("record_toggled") IN
       SetMetroState(
          IF on
          THEN IF st.count_in_active THEN st
               ELSE IF st.count_in_enabled /\ st.count_in_beats > 0 /\ ~is_playing
                    THEN StartCountIn(st)
                    ELSE StartRecording(st)
          ELSE StopRecording(CancelCountIn(st)))
    /\ UNCHANGED now

\* time.perf_counter() moves on.
Tick ==
    /\ now < MaxTime
    /\ now' = now + 1
    /\ UNCHANGED <<m_running, m_bpm, m_next_beat_at, m_beats_per_cycle, m_accent_beat,
                   m_beat_index, m_timer, m_click_callback, metronome_enabled,
                   count_in_enabled, count_in_beats, count_in_remaining, count_in_active,
                   recording, mlast, audio_callback_fn>>

\* No start() yet.
SchedInit == sched = [start_at |-> NoTime, n |-> 0, disturbed |-> FALSE, lateness |-> 0]

\* Metronome.start() called directly; its beats are counted.
SchedStart ==
    /\ SetMetroState(MetronomeStart(MetroState("start")))
    /\ sched' = IF m_running THEN sched
                ELSE [sched EXCEPT !.n = mlast'.beats, !.disturbed = FALSE]
    /\ UNCHANGED now

\* Metronome.stop() called directly.
SchedStop ==
    /\ SetMetroState(MetronomeStop(MetroState("stop")))
    /\ UNCHANGED <<now, sched>>

\* metronome.bpm = value
SchedSetBpm(value) ==
    /\ SetMetroState(SetBpm([MetroState("bpm") EXCEPT !.arg = value], value))
    /\ UNCHANGED <<now, sched>>

\* Metronome.set_meter(beats_per_cycle, accent_beat) called directly.
SchedSetMeter(beats_per_cycle, accent_beat) ==
    /\ SetMetroState(SetMeter(MetroState("set_meter"), beats_per_cycle, accent_beat))
    /\ sched' = [sched EXCEPT !.disturbed = TRUE]
    /\ UNCHANGED now

\* Metronome.set_meter(beats_per_cycle) called directly.
SchedSetMeterDefault(beats_per_cycle) ==
    /\ SetMetroState(SetMeterDefault(MetroState("set_meter"), beats_per_cycle))
    /\ sched' = [sched EXCEPT !.disturbed = TRUE]
    /\ UNCHANGED now

\* Metronome.reset_counter() called directly.
SchedResetCounter ==
    /\ SetMetroState(ResetCounter(MetroState("reset_counter")))
    /\ sched' = [sched EXCEPT !.disturbed = TRUE]
    /\ UNCHANGED now

\* The timer fires, possibly late; its beats are counted.
SchedTimeout ==
    /\ TimerTimeout
    /\ sched' = [sched EXCEPT !.n = @ + mlast'.beats]

\* Metronome.start() on a metronome never started before; the time is kept.
RunStart ==
    /\ sched.start_at = NoTime
    /\ now \in StartTimes
    /\ SetMetroState(MetronomeStart(MetroState("start")))
    /\ sched' = [sched EXCEPT !.start_at = now, !.n = mlast'.beats]
    /\ UNCHANGED now

\* metronome.bpm = value before the metronome is started.
RunSetBpm(value) == ~m_running /\ SchedSetBpm(value)

\* The timer fires; its beats are counted and its lateness is kept, up to one
\* tick more than the beat interval.
RunTimeout ==
    /\ TimerTimeout
    /\ sched' = [sched EXCEPT !.n = @ + mlast'.beats,
                              !.lateness = Max(@, Min(BeatInterval(m_bpm) + 1,
                                                      now - m_timer))]

\* time.perf_counter() moves on while the metronome is left running.
RunTick ==
    /\ now < RunSeconds * TicksPerSecond
    /\ now' = now + 1
    /\ UNCHANGED <<m_running, m_bpm, m_next_beat_at, m_beats_per_cycle, m_accent_beat,
                   m_beat_index, m_timer, m_click_callback, metronome_enabled,
                   count_in_enabled, count_in_beats, count_in_remaining, count_in_active,
                   recording, mlast, audio_callback_fn>>

\* ------------------------------------------------------------- MidiRecorder

ROp(op) == [op |-> op, was_recording |-> FALSE, before |-> << >>, sustain_before |-> FALSE,
            stop_time |-> NoTime, offset |-> 0]

\* State after MidiRecorder.__init__.
RecorderInit ==
    /\ rec_events = << >>
    /\ rec_start_time = NoTime
    /\ rec_recording = FALSE
    /\ rec_active_notes = [n \in RecNotes |-> 0]
    /\ rec_sustain_on = FALSE
    /\ wall = 0
    /\ note_events = << >>
    /\ rlast = ROp("init")

\* The guard of note_on, note_off and sustain (and of stop): recording is on.
Recording == rec_recording /\ rec_start_time # NoTime

\* MidiRecorder.start()
RecStart ==
    /\ rec_events' = << >>
    /\ rec_start_time' = wall
    /\ rec_recording' = TRUE
    /\ rec_active_notes' = [n \in RecNotes |-> 0]
    /\ rec_sustain_on' = FALSE
    /\ rlast' = ROp("start")
    /\ UNCHANGED <<wall, note_events>>

\* Variant of NoteOffsFor: one note_off for a held note, however often it was pressed.
NoteOffsForOnce(note, count, stop_time) ==
    IF count = 0 THEN << >>
    ELSE <<[type |-> "note_off", note |-> note, velocity |-> 0, time |-> stop_time]>>

\* Lines 36-42: for _ in range(count): append a note_off of the note at stop_time.
NoteOffsFor(note, count, stop_time) ==
    [k \in 1..count |->
        [type |-> "note_off", note |-> note, velocity |-> 0, time |-> stop_time]]

\* Lines 35-42: the note_offs for sorted(self._active_notes.items()), the notes
\* from `from` upwards.
RECURSIVE FlushNotes(_, _, _)
FlushNotes(active_notes, from, stop_time) ==
    LET rest == {n \in DOMAIN active_notes : n >= from} IN
    IF rest = {} THEN << >>
    ELSE LET note == CHOOSE n \in rest : \A m \in rest : n <= m
         IN NoteOffsFor(note, active_notes[note], stop_time)
            \o FlushNotes(active_notes, note + 1, stop_time)

\* Variant of SustainRelease: the pedal is left as recorded.
SustainReleaseNever(sustain_on, stop_time) == << >>

\* Lines 46-51: a sustain-off at stop_time if the pedal was left on.
SustainRelease(sustain_on, stop_time) ==
    IF sustain_on THEN <<[type |-> "sustain", value |-> FALSE, time |-> stop_time]>>
    ELSE << >>

\* MidiRecorder.stop()
RecStop ==
    /\ rlast' = [ROp("stop") EXCEPT !.was_recording = Recording, !.before = rec_events,
                                    !.sustain_before = rec_sustain_on,
                                    !.stop_time = IF Recording THEN wall - rec_start_time
                                                  ELSE NoTime]
    /\ IF ~Recording
       THEN /\ rec_recording' = FALSE
            /\ UNCHANGED <<rec_events, rec_start_time, rec_active_notes, rec_sustain_on>>
       ELSE LET stop_time == wall - rec_start_time IN
            /\ rec_events' = rec_events \o FlushNotes(rec_active_notes, 0, stop_time)
                                        \o SustainRelease(rec_sustain_on, stop_time)
            /\ rec_active_notes' = [n \in RecNotes |-> 0]
            /\ rec_sustain_on' = FALSE
            /\ rec_recording' = FALSE
            /\ rec_start_time' = NoTime
    /\ UNCHANGED <<wall, note_events>>

\* MidiRecorder.note_on(note, velocity)
RecNoteOn(note, velocity) ==
    /\ Len(rec_events) < MaxEvents
    /\ rlast' = ROp("note_on")
    /\ IF ~Recording
       THEN UNCHANGED <<rec_events, rec_active_notes>>
       ELSE /\ rec_events' = Append(rec_events,
                                    [type |-> "note_on", note |-> note,
                                     velocity |-> velocity, time |-> wall - rec_start_time])
            /\ rec_active_notes' = [rec_active_notes EXCEPT ![note] = @ + 1]
    /\ UNCHANGED <<rec_start_time, rec_recording, rec_sustain_on, wall, note_events>>

\* MidiRecorder.note_off(note)
RecNoteOff(note) ==
    /\ Len(rec_events) < MaxEvents
    /\ rlast' = ROp("note_off")
    /\ IF ~Recording
       THEN UNCHANGED <<rec_events, rec_active_notes>>
       ELSE /\ rec_events' = Append(rec_events,
                                    [type |-> "note_off", note |-> note,
                                     velocity |-> 0, time |-> wall - rec_start_time])
            /\ rec_active_notes' = IF rec_active_notes[note] > 0
                                   THEN [rec_active_notes EXCEPT ![note] = @ - 1]
                                   ELSE rec_active_notes
    /\ UNCHANGED <<rec_start_time, rec_recording, rec_sustain_on, wall, note_events>>

\* MidiRecorder.sustain(on)
RecSustain(on) ==
    /\ Len(rec_events) < MaxEvents
    /\ rlast' = ROp("sustain")
    /\ IF ~Recording
       THEN UNCHANGED <<rec_events, rec_sustain_on>>
       ELSE /\ rec_events' = Append(rec_events,
                                    [type |-> "sustain", value |-> on,
                                     time |-> wall - rec_start_time])
            /\ rec_sustain_on' = on
    /\ UNCHANGED <<rec_start_time, rec_recording, rec_active_notes, wall, note_events>>

\* time.time() moves on.
RecTick ==
    /\ wall < MaxWall
    /\ wall' = wall + 1
    /\ UNCHANGED <<rec_events, rec_start_time, rec_recording, rec_active_notes,
                   rec_sustain_on, note_events, rlast>>

\* MidiFileService.recorder_events_to_notes: the loop over the events, active_notes
\* being the dict note -> (start_time, velocity) (<< >> for a note not in it)
\* and acc the NoteEvents so far.
RECURSIVE ToNotes(_, _, _, _)
ToNotes(events, offset, active_notes, acc) ==
    IF events = << >> THEN acc
    ELSE LET event == Head(events) IN
         IF event.type = "note_on"
         THEN ToNotes(Tail(events), offset,
                      [active_notes EXCEPT ![event.note] = <<event.time, event.velocity>>], acc)
         ELSE IF event.type = "note_off" /\ active_notes[event.note] # << >>
         THEN LET start_time == active_notes[event.note][1]
                  velocity == active_notes[event.note][2]
              IN ToNotes(Tail(events), offset, [active_notes EXCEPT ![event.note] = << >>],
                         Append(acc, [note |-> event.note,
                                      start_time |-> offset + start_time,
                                      duration |-> Max(0, event.time - start_time),
                                      velocity |-> velocity]))
         ELSE ToNotes(Tail(events), offset, active_notes, acc)

\* MidiFileService.recorder_events_to_notes(events, offset)
RecorderEventsToNotes(events, offset) ==
    ToNotes(events, offset, [n \in RecNotes |-> << >>], << >>)

\* The controller converts the recorder's events: get_events(), then
\* recorder_events_to_notes(events, offset).
Convert(offset) ==
    /\ rec_events # << >>
    /\ note_events' = RecorderEventsToNotes(rec_events, offset)
    /\ rlast' = [ROp("convert") EXCEPT !.offset = offset]
    /\ UNCHANGED <<rec_events, rec_start_time, rec_recording, rec_active_notes,
                   rec_sustain_on, wall>>

\* What a metronome operation leaves alone.
metroFrame == <<synthVars, threadVars, streamVars, volume, synth_ref, mix_queue,
                mix_current, mix_index, outdata, sink_data, elast, timeVars, limiterVars, swapVars, auxVars, volVars, schedVars, recVars, splitVars, profileVars, loopVars, ctlVars>>

\* What an operation called on the metronome directly leaves alone.
schedFrame == <<synthVars, threadVars, streamVars, volume, synth_ref, mix_queue,
                mix_current, mix_index, outdata, sink_data, elast, timeVars, limiterVars,
                swapVars, auxVars, volVars, recVars, splitVars, profileVars, loopVars, ctlVars>>

\* Before PianoPlayerController.__init__: nothing exists yet.
CtlInit ==
    ctl = [phase |-> "none", midi |-> FALSE, init_timer |-> FALSE,
           autoload_timer |-> FALSE, autoload |-> FALSE, synth |-> 0,
           cleanup_synths |-> << >>, created |-> 0, soundfonts |-> {}, ever |-> {},
           cleanups |-> << >>]

\* No count-in has begun.
CountInit == cin = [n |-> 0, beats |-> 0, was_recording |-> FALSE, ended |-> "none"]

\* Nothing was recorded or merged.
EditorInit == ed = [takes |-> 0, recording_offset |-> 0, merges |-> << >>]

\* No WavRecorder exists; no callback and no _stop_recording is in progress.
WavInit ==
    wav = [files |-> << >>, cb_pc |-> 0, cb_rec |-> 0, stop_pc |-> 0, failed |-> "none",
           written |-> << >>, sent |-> << >>]

\* One synthesizer driven by whole operations (each runs under SimpleSynth._lock).
Init == SynthInit /\ ThreadInit /\ EngineInit /\ MetroInit /\ ClockInit /\ LimiterInit /\ CallbackInit /\ ClipsInit /\ VolumeInit /\ SchedInit /\ RecorderInit /\ SplitInit /\ FilterInit /\ LoopInit /\ CtlInit /\ CountInit /\ EditorInit /\ WavInit
Next ==
    \/ \E n \in NoteNumbers, v \in Velocities : NoteOn(n, v) /\ UNCHANGED <<threadVars, engineVars, metroVars, timeVars, limiterVars, swapVars, auxVars, volVars, schedVars, recVars, splitVars, profileVars, loopVars, ctlVars>>
    \/ \E n \in NoteNumbers : NoteOff(n) /\ UNCHANGED <<threadVars, engineVars, metroVars, timeVars, limiterVars, swapVars, auxVars, volVars, schedVars, recVars, splitVars, profileVars, loopVars, ctlVars>>
    \/ SustainOn /\ UNCHANGED <<threadVars, engineVars, metroVars, timeVars, limiterVars, swapVars, auxVars, volVars, schedVars, recVars, splitVars, profileVars, loopVars, ctlVars>>
    \/ SustainOff /\ UNCHANGED <<threadVars, engineVars, metroVars, timeVars, limiterVars, swapVars, auxVars, volVars, schedVars, recVars, splitVars, profileVars, loopVars, ctlVars>>
    \/ Generate(buffer_size) /\ UNCHANGED <<threadVars, engineVars, metroVars, timeVars, limiterVars, swapVars, auxVars, volVars, schedVars, recVars, splitVars, profileVars, loopVars, ctlVars>>
Spec == Init /\ [][Next]_vars

\* One Piano synthesizer with a soft and a loud key, generating full buffers.
StealInit == Init /\ instrument = DEFAULT_INSTRUMENT /\ buffer_size = MaxSamples

StealNext ==
    \/ \E nv \in StealNotes :
          NoteOn(nv[1], nv[2]) /\ UNCHANGED <<threadVars, engineVars, metroVars, timeVars, limiterVars, swapVars, auxVars, volVars, schedVars, recVars, splitVars, profileVars, loopVars, ctlVars>>
    \/ \E n \in NoteNumbers : NoteOff(n) /\ UNCHANGED <<threadVars, engineVars, metroVars, timeVars, limiterVars, swapVars, auxVars, volVars, schedVars, recVars, splitVars, profileVars, loopVars, ctlVars>>
    \/ SustainOn /\ UNCHANGED <<threadVars, engineVars, metroVars, timeVars, limiterVars, swapVars, auxVars, volVars, schedVars, recVars, splitVars, profileVars, loopVars, ctlVars>>
    \/ SustainOff /\ UNCHANGED <<threadVars, engineVars, metroVars, timeVars, limiterVars, swapVars, auxVars, volVars, schedVars, recVars, splitVars, profileVars, loopVars, ctlVars>>
    \/ Generate(buffer_size) /\ UNCHANGED <<threadVars, engineVars, metroVars, timeVars, limiterVars, swapVars, auxVars, volVars, schedVars, recVars, splitVars, profileVars, loopVars, ctlVars>>

SpecSteal == StealInit /\ [][StealNext]_vars

\* ------------------------------------------------------------- one voice, timed

\* note_on(n, 100) of the one key this run strikes.
VoiceNoteOn(n) ==
    /\ clk.since_on = -1
    /\ NoteOn(n, 100)
    /\ clk' = [clk EXCEPT !.since_on = 0]

\* note_off(n) of the struck key; the first one is what the clock remembers.
VoiceNoteOff(n) ==
    /\ HasNote(notes, n)
    /\ NoteOff(n)
    /\ clk' = IF clk.since_off = -1
              THEN [clk EXCEPT !.since_off = 0,
                               !.off_env = NoteAt(notes, n).envelope,
                               !.off_stage = NoteAt(notes, n).stage,
                               !.held = sustain,
                               !.dry = ~sustain]
              ELSE clk

VoiceSustainOn == SustainOn /\ clk' = [clk EXCEPT !.dry = FALSE]

VoiceSustainOff == SustainOff /\ clk' = [clk EXCEPT !.held = FALSE]

\* generate(buffer_size), polled after the note_on.
VoiceGenerate ==
    /\ clk.since_on >= 0
    /\ clk.since_on < MaxElapsed
    /\ Generate(buffer_size)
    /\ clk' = [clk EXCEPT !.since_on = @ + buffer_size,
                          !.since_off = IF @ >= 0 THEN @ + buffer_size ELSE @]

VoiceNext ==
    \/ \E n \in NoteNumbers : VoiceNoteOn(n) /\ UNCHANGED <<threadVars, engineVars, metroVars, limiterVars, swapVars, auxVars, volVars, schedVars, recVars, splitVars, profileVars, loopVars, ctlVars>>
    \/ \E n \in NoteNumbers : VoiceNoteOff(n) /\ UNCHANGED <<threadVars, engineVars, metroVars, limiterVars, swapVars, auxVars, volVars, schedVars, recVars, splitVars, profileVars, loopVars, ctlVars>>
    \/ VoiceSustainOn /\ UNCHANGED <<threadVars, engineVars, metroVars, limiterVars, swapVars, auxVars, volVars, schedVars, recVars, splitVars, profileVars, loopVars, ctlVars>>
    \/ VoiceSustainOff /\ UNCHANGED <<threadVars, engineVars, metroVars, limiterVars, swapVars, auxVars, volVars, schedVars, recVars, splitVars, profileVars, loopVars, ctlVars>>
    \/ VoiceGenerate /\ UNCHANGED <<threadVars, engineVars, metroVars, limiterVars, swapVars, auxVars, volVars, schedVars, recVars, splitVars, profileVars, loopVars, ctlVars>>

\* One key struck once, with the pedal and generate() polled around it.
SpecVoice == Init /\ [][VoiceNext]_vars

\* ------------------------------------------------------------- limiter behaviours

\* The mixed buffers of successive generate() calls, two samples each.
LimiterNext ==
    \E buffer \in [1..2 -> LimiterSamples] :
        ApplyLimiter(buffer)
            /\ UNCHANGED <<synthVars, threadVars, engineVars, metroVars, timeVars, swapVars, auxVars, volVars, schedVars, recVars, splitVars, profileVars, loopVars, ctlVars>>

SpecLimiter == Init /\ [][LimiterNext]_vars

\* ------------------------------------------------------------- threads on one SimpleSynth

\* Any of note_on, note_off, sustain_on, sustain_off: `with self._lock` around
\* the whole body, so the call waits for the lock and then runs as one step.
Locked(Body) == lock = "free" /\ Body /\ UNCHANGED <<threadVars, engineVars, metroVars, timeVars, limiterVars, swapVars, auxVars, volVars, schedVars, recVars, splitVars, profileVars, loopVars, ctlVars>>

\* SimpleSynth.generate, line 178: the audio thread takes the lock.
GenerateEnter ==
    /\ lock = "free"
    /\ lock' = "audio"
    /\ UNCHANGED <<synthVars, set_pc, set_target, engineVars, metroVars, timeVars, limiterVars, swapVars, auxVars, volVars, schedVars, recVars, splitVars, profileVars, loopVars, ctlVars>>

\* SimpleSynth.generate, lines 179-209: the body, then the lock is released.
GenerateExit ==
    /\ lock = "audio"
    /\ Generate(buffer_size)
    /\ lock' = "free"
    /\ UNCHANGED <<set_pc, set_target, engineVars, metroVars, timeVars, limiterVars, swapVars, auxVars, volVars, schedVars, recVars, splitVars, profileVars, loopVars, ctlVars>>

\* SimpleSynth.active_notes_count(): len(self._notes) under the lock.
ActiveNotesCount ==
    /\ lock = "free"
    /\ last' = Op("active_notes_count", Len(notes))
    /\ UNCHANGED <<notes, sustain, sustained_notes, instrument, prof, buffer_size,
                   threadVars, engineVars, metroVars, timeVars, limiterVars, swapVars, auxVars, volVars, schedVars, recVars, splitVars, profileVars, loopVars, ctlVars>>

\* PianoPlayerController._apply_instrument -> SimpleSynth.set_instrument, lines
\* 103-104, on the control thread.  The method never takes self._lock, so each
\* of its assignments is a step of its own.
SetInstrumentBegin(name) ==
    /\ set_pc = 0
    /\ set_pc' = 1
    /\ set_target' = IF name \in InstrumentNames THEN name ELSE DEFAULT_INSTRUMENT
    /\ instrument' = IF name \in InstrumentNames THEN name ELSE DEFAULT_INSTRUMENT
    /\ last' = Op("set_instrument", -1)
    /\ UNCHANGED <<notes, sustain, sustained_notes, prof, buffer_size, lock, engineVars, metroVars, timeVars, limiterVars, swapVars, auxVars, volVars, schedVars, recVars, splitVars, profileVars, loopVars, ctlVars>>

\* SimpleSynth.set_instrument, lines 105-120: the next assignment (the last
\* step stands for lines 109-120: pedal release, gain, harmonics, filters).
SetInstrumentStep ==
    /\ set_pc > 0
    /\ LET profile == INSTRUMENTS(set_target) IN
       prof' = CASE set_pc = 1 -> [prof EXCEPT !.attack = profile.attack]
                 [] set_pc = 2 -> [prof EXCEPT !.decay = profile.decay]
                 [] set_pc = 3 -> [prof EXCEPT !.sustain_level = profile.sustain_level]
                 [] set_pc = 4 -> [prof EXCEPT !.release = profile.release]
                 [] OTHER -> [prof EXCEPT !.pedal_release = profile.pedal_release]
    /\ filt' = IF set_pc >= 5
               THEN ResetHistory(RecomputeFilterCoeffs(
                        [filt EXCEPT !.hp_hz = FILTERS(set_target).hp_hz,
                                     !.lp_hz = FILTERS(set_target).lp_hz]))
               ELSE filt
    /\ set_pc' = IF set_pc >= 5 THEN 0 ELSE set_pc + 1
    /\ last' = Op("set_instrument", set_pc)
    /\ UNCHANGED <<notes, sustain, sustained_notes, instrument, buffer_size, lock,
                   set_target, engineVars, metroVars, timeVars, limiterVars, swapVars, auxVars, volVars, schedVars, recVars, splitVars, ilast, loopVars, ctlVars>>

ThreadsNext ==
    \/ \E n \in ThreadNotes, v \in Velocities : Locked(NoteOn(n, v))
    \/ \E n \in ThreadNotes : Locked(NoteOff(n))
    \/ Locked(SustainOn)
    \/ Locked(SustainOff)
    \/ GenerateEnter
    \/ GenerateExit
    \/ ActiveNotesCount
    \/ \E name \in InstrumentNames : SetInstrumentBegin(name)
    \/ SetInstrumentStep

\* The MIDI thread, the audio thread and the control thread on one synthesizer.
SpecThreads == Init /\ [][ThreadsNext]_vars

\* ------------------------------------------------------------- AudioEngine behaviours

\* An engine whose synthesizer keeps the default instrument.
EngineOnlyInit == Init /\ instrument = DEFAULT_INSTRUMENT

StreamNext ==
    \/ \E o \in StartOutcomes : EngineStart(o) /\ UNCHANGED <<synthVars, threadVars, metroVars, timeVars, limiterVars, swapVars, auxVars, volVars, schedVars, recVars, splitVars, profileVars, loopVars, ctlVars>>
    \/ EngineStop /\ UNCHANGED <<synthVars, threadVars, metroVars, timeVars, limiterVars, swapVars, auxVars, volVars, schedVars, recVars, splitVars, profileVars, loopVars, ctlVars>>
    \/ \E d \in DeviceInputs, o1, o2 \in StartOutcomes :
          SetOutputDevice(d, o1, o2) /\ UNCHANGED <<synthVars, threadVars, metroVars, timeVars, limiterVars, swapVars, auxVars, volVars, schedVars, recVars, splitVars, profileVars, loopVars, ctlVars>>
    \/ \E s \in active, g \in SynthBuffers :
          AudioCallback(s, g) /\ UNCHANGED <<synthVars, threadVars, metroVars, timeVars, limiterVars, swapVars, auxVars, volVars, schedVars, recVars, splitVars, profileVars, loopVars, ctlVars>>

\* The stream life cycle of one engine: start, stop, device changes, callbacks.
SpecStream == EngineOnlyInit /\ [][StreamNext]_vars

MixNext ==
    \/ ControllerStart /\ UNCHANGED <<synthVars, threadVars, metroVars, timeVars, limiterVars, swapVars, auxVars, volVars, schedVars, recVars, splitVars, profileVars, loopVars, ctlVars>>
    \/ \E s \in active, g \in SynthBuffers :
          AudioCallback(s, g) /\ UNCHANGED <<synthVars, threadVars, metroVars, timeVars, limiterVars, swapVars, auxVars, volVars, schedVars, recVars, splitVars, profileVars, loopVars, ctlVars>>
    \/ \E c \in Clips \cup {NoClip} : QueueAudio(c) /\ UNCHANGED <<synthVars, threadVars, metroVars, timeVars, limiterVars, swapVars, auxVars, volVars, schedVars, recVars, splitVars, profileVars, loopVars, ctlVars>>
    \/ \E v \in VolumeInputs : SetVolume(v) /\ UNCHANGED <<synthVars, threadVars, metroVars, timeVars, limiterVars, swapVars, auxVars, volVars, schedVars, recVars, splitVars, profileVars, loopVars, ctlVars>>
    \/ \E x \in {0, 1} : SetSynth(x) /\ UNCHANGED <<synthVars, threadVars, metroVars, timeVars, limiterVars, swapVars, auxVars, volVars, schedVars, recVars, splitVars, profileVars, loopVars, ctlVars>>
    \/ \E b \in BOOLEAN : SetAudioCallback(b) /\ UNCHANGED <<synthVars, threadVars, metroVars, timeVars, limiterVars, swapVars, auxVars, volVars, schedVars, recVars, splitVars, profileVars, loopVars, ctlVars>>

\* The callback of a running engine against the control thread's setters.
SpecMix == EngineOnlyInit /\ [][MixNext]_vars

\* Synthesizer references handed to set_synth: None (0) and two instances.
SynthRefs == {0, 1, 2}

SwapNext ==
    \/ ControllerStart /\ UNCHANGED <<synthVars, threadVars, metroVars, timeVars, limiterVars, swapVars, auxVars, volVars, schedVars, recVars, splitVars, profileVars, loopVars, ctlVars>>
    \/ \E s \in active : CallbackRead(s) /\ UNCHANGED <<synthVars, threadVars, metroVars, timeVars, limiterVars, auxVars, volVars, schedVars, recVars, splitVars, profileVars, loopVars, ctlVars>>
    \/ \E g \in SynthBuffers : CallbackFinish(g) /\ UNCHANGED <<synthVars, threadVars, metroVars, timeVars, limiterVars, auxVars, volVars, schedVars, recVars, splitVars, profileVars, loopVars, ctlVars>>
    \/ \E x \in SynthRefs : SwapSynth(x) /\ UNCHANGED <<synthVars, threadVars, metroVars, timeVars, limiterVars, auxVars, volVars, schedVars, recVars, splitVars, profileVars, loopVars, ctlVars>>
    \/ \E c \in Clips : QueueAudio(c) /\ UNCHANGED <<synthVars, threadVars, metroVars, timeVars, limiterVars, swapVars, auxVars, volVars, schedVars, recVars, splitVars, profileVars, loopVars, ctlVars>>

\* set_synth on the control thread against a callback taken in two steps: the
\* read of self._synth, then everything after it.
SpecSwap == EngineOnlyInit /\ [][SwapNext]_vars

ClipsNext ==
    \/ ControllerStart /\ UNCHANGED <<synthVars, threadVars, metroVars, timeVars, limiterVars, swapVars, auxVars, volVars, schedVars, recVars, splitVars, profileVars, loopVars, ctlVars>>
    \/ SetAudioCallback(TRUE) /\ UNCHANGED <<synthVars, threadVars, metroVars, timeVars, limiterVars, swapVars, auxVars, volVars, schedVars, recVars, splitVars, profileVars, loopVars, ctlVars>>
    \/ \E c \in Clips \cup {NoClip} : QueueClip(c) /\ UNCHANGED <<synthVars, threadVars, metroVars, timeVars, limiterVars, swapVars, volVars, schedVars, recVars, splitVars, profileVars, loopVars, ctlVars>>
    \/ \E s \in active, g \in SynthBuffers :
          ClipCallback(s, g) /\ UNCHANGED <<synthVars, threadVars, metroVars, timeVars, limiterVars, swapVars, volVars, schedVars, recVars, splitVars, profileVars, loopVars, ctlVars>>

\* One-shot clips queued on the control thread and played by the callbacks of
\* one stream, every buffer reaching the recording sink.
SpecClips == EngineOnlyInit /\ [][ClipsNext]_vars

VolumeNext ==
    \/ ControllerStart /\ UNCHANGED <<synthVars, threadVars, metroVars, timeVars, limiterVars, swapVars, auxVars, volVars, schedVars, recVars, splitVars, profileVars, loopVars, ctlVars>>
    \/ \E v \in VolumeArgs : VolumeCall(v) /\ UNCHANGED <<synthVars, threadVars, metroVars, timeVars, limiterVars, swapVars, auxVars, schedVars, recVars, splitVars, profileVars, loopVars, ctlVars>>
    \/ \E x \in {0, 1} : SetSynth(x) /\ UNCHANGED <<synthVars, threadVars, metroVars, timeVars, limiterVars, swapVars, auxVars, volVars, schedVars, recVars, splitVars, profileVars, loopVars, ctlVars>>
    \/ \E s \in active, g \in SynthBuffers :
          AudioCallback(s, g) /\ UNCHANGED <<synthVars, threadVars, metroVars, timeVars, limiterVars, swapVars, auxVars, volVars, schedVars, recVars, splitVars, profileVars, loopVars, ctlVars>>

\* The volume setter on the control thread against the callbacks that read it.
SpecVolume == EngineOnlyInit /\ [][VolumeNext]_vars

\* ------------------------------------------------------------- Metronome behaviours

MetroNext ==
    \/ TimerTimeout /\ UNCHANGED metroFrame
    \/ Tick /\ UNCHANGED metroFrame
    \/ \E on \in BOOLEAN : MetronomeToggled(on) /\ UNCHANGED metroFrame
    \/ \E bpm \in BpmInputs : MetronomeBpmChanged(bpm) /\ UNCHANGED metroFrame
    \/ \E enabled \in BOOLEAN : CountInEnabledChanged(enabled) /\ UNCHANGED metroFrame
    \/ \E beats \in CountInBeatsInputs : CountInBeatsChanged(beats) /\ UNCHANGED metroFrame
    \/ \E on, is_playing \in BOOLEAN : RecordToggled(on, is_playing) /\ UNCHANGED metroFrame

\* The controller's metronome, driven by the user interface and its timer.
SpecMetro == EngineOnlyInit /\ [][MetroNext]_vars

SchedNext ==
    \/ SchedStart /\ UNCHANGED schedFrame
    \/ SchedStop /\ UNCHANGED schedFrame
    \/ \E v \in BpmInputs : SchedSetBpm(v) /\ UNCHANGED schedFrame
    \/ \E m \in MeterInputs : SchedSetMeter(m[1], m[2]) /\ UNCHANGED schedFrame
    \/ \E b \in DefaultMeterInputs : SchedSetMeterDefault(b) /\ UNCHANGED schedFrame
    \/ SchedResetCounter /\ UNCHANGED schedFrame
    \/ SchedTimeout /\ UNCHANGED schedFrame
    \/ Tick /\ UNCHANGED metroFrame

\* The metronome alone: its operations called directly, its timer and the clock.
SpecSched == EngineOnlyInit /\ [][SchedNext]_vars

RunNext ==
    \/ \E v \in BpmInputs : RunSetBpm(v) /\ UNCHANGED schedFrame
    \/ RunStart /\ UNCHANGED schedFrame
    \/ RunTimeout /\ UNCHANGED schedFrame
    \/ RunTick /\ UNCHANGED metroFrame

\* A metronome started once, at a tempo chosen before, and left running with
\* its timer firing as late as it likes.
SpecRun == EngineOnlyInit /\ [][RunNext]_vars

\* What a recorder operation leaves alone.
recFrame == <<synthVars, threadVars, engineVars, metroVars, timeVars, limiterVars,
              swapVars, auxVars, volVars, schedVars, splitVars, profileVars, loopVars, ctlVars>>

\* No recording has been finished yet.
FirstRecording == rec_recording \/ rec_events = << >>

RecorderNext ==
    \/ FirstRecording /\ RecStart /\ UNCHANGED recFrame
    \/ RecStop /\ UNCHANGED recFrame
    \/ \E nv \in RecNoteOns : RecNoteOn(nv[1], nv[2]) /\ UNCHANGED recFrame
    \/ \E n \in RecNotes : RecNoteOff(n) /\ UNCHANGED recFrame
    \/ RecTick /\ UNCHANGED recFrame
    \/ \E offset \in Offsets : ~rec_recording /\ Convert(offset) /\ UNCHANGED recFrame

\* Notes of one recording from the keyboard, converted for the editor once it
\* is finished.
SpecRecorder == StealInit /\ [][RecorderNext]_vars

PedalNext ==
    \/ FirstRecording /\ RecStart /\ UNCHANGED recFrame
    \/ RecStop /\ UNCHANGED recFrame
    \/ \E on \in BOOLEAN : RecSustain(on) /\ UNCHANGED recFrame
    \/ RecNoteOn(60, 90) /\ UNCHANGED recFrame
    \/ RecTick /\ UNCHANGED recFrame

\* The pedal recorded along with a held note in one recording.
SpecPedal == StealInit /\ [][PedalNext]_vars

\* What a call on the synthesizer leaves alone.
synthFrame == <<threadVars, engineVars, metroVars, timeVars, limiterVars, swapVars,
                auxVars, volVars, schedVars, recVars, profileVars, loopVars, ctlVars>>

\* The sample counts of a call and of the two calls it is compared with.
SplitCounts == 1..MaxSamples

\* The keys played: with MAX_VOICES voices sounding, a note_on steals one.
SplitNotes == {0, 1}

\* A Piano or a Guitar.
SplitStart == Init /\ buffer_size = MaxSamples

\* One synthesizer whose generate() calls are compared with the same samples
\* asked for in two calls and one at a time.
SplitNext ==
    \/ \E n \in SplitNotes :
          NoteOn(n, 100) /\ split' = SplitState("note_on") /\ UNCHANGED synthFrame
    \/ \E n \in SplitNotes :
          NoteOff(n) /\ split' = SplitState("note_off") /\ UNCHANGED synthFrame
    \/ SustainOn /\ split' = SplitState("sustain_on") /\ UNCHANGED synthFrame
    \/ SustainOff /\ split' = SplitState("sustain_off") /\ UNCHANGED synthFrame
    \/ \E a \in SplitCounts, b \in SplitCounts : GenerateWatched(a, b) /\ UNCHANGED synthFrame

SpecSplit == SplitStart /\ [][SplitNext]_vars

\* What a call on the synthesizer and its filter leaves alone.
profileFrame == <<threadVars, engineVars, metroVars, timeVars, limiterVars, swapVars,
                  auxVars, volVars, schedVars, recVars, splitVars, loopVars, ctlVars>>

\* Names handed to set_instrument: the profiles and a name that is none.
InstrumentInputs == InstrumentNames \cup {"Organ"}

\* The buffers the output filter is handed: silence, a loud swing, a steady level.
FilterBuffers == {<<0, 0>>, <<LoudSample, -LoudSample>>, <<SampleOne, SampleOne>>}

\* The key played.
ProfileNotes == {0}

\* A synthesizer with one key, the pedal, generate() and the instrument
\* selector, each call running from its first to its last line.
ProfileNext ==
    \/ \E n \in ProfileNotes : NoteOn(n, 100) /\ UNCHANGED <<profileFrame, profileVars>>
    \/ \E n \in ProfileNotes : NoteOff(n) /\ UNCHANGED <<profileFrame, profileVars>>
    \/ SustainOn /\ UNCHANGED <<profileFrame, profileVars>>
    \/ SustainOff /\ UNCHANGED <<profileFrame, profileVars>>
    \/ \E buffer \in FilterBuffers : GenerateFiltered(buffer) /\ UNCHANGED profileFrame
    \/ \E name \in InstrumentInputs : SetInstrument(name) /\ UNCHANGED profileFrame

SpecProfile == SplitStart /\ [][ProfileNext]_vars

\* Raw messages from the MIDI port: note on and off for key 60 on two channels,
\* note on with velocity 0, a note on whose key byte is 200, the pedal down and
\* up, another controller, a short message and an empty one.
MidiData == {<<144, 60, 100>>, <<145, 60, 0>>, <<128, 60, 64>>, <<144, 200, 100>>,
             <<129, 200, 0>>, <<176, 64, 127>>, <<176, 64, 0>>, <<176, 1, 5>>,
             <<144, 60>>, << >>}

\* The MIDI port driving one synthesizer, and the audio callback's generate().
MidiNext ==
    \/ \E data \in MidiData : MidiCallback(data) /\ UNCHANGED <<profileFrame, profileVars>>
    \/ Generate(buffer_size) /\ UNCHANGED <<profileFrame, profileVars>>

SpecMidi == SplitStart /\ [][MidiNext]_vars

\* What a call of _build_envelope_block leaves alone.
loopFrame == <<synthVars, threadVars, engineVars, metroVars, timeVars, limiterVars,
               swapVars, auxVars, volVars, schedVars, recVars, splitVars, profileVars, ctlVars>>

\* A time of a profile, and the values that are not positive.
EnvTimes(time) == {0 - 1, 0, time}

\* The envelope parameters _build_envelope_block may find: those of a profile,
\* each time as it is, zero or negative.
EnvProfiles ==
    UNION {[attack : EnvTimes(INSTRUMENTS(name).attack),
            decay : EnvTimes(INSTRUMENTS(name).decay),
            sustain_level : {INSTRUMENTS(name).sustain_level},
            release : EnvTimes(INSTRUMENTS(name).release),
            pedal_release : EnvTimes(INSTRUMENTS(name).pedal_release)] :
           name \in InstrumentNames}

\* The voices it may be called for: every stage, at silence, at the cap of a
\* stolen voice, half way and at full level, held or released.
EnvStages == {"attack", "decay", "sustain", "pedal", "release", "off"}
EnvLevels == {0, STEAL_CAP, EnvOne \div 2, EnvOne}
EnvVoices ==
    {[NewNote(0, 100) EXCEPT !.stage = stage, !.envelope = e, !.released = released] :
        stage \in EnvStages, e \in EnvLevels, released \in BOOLEAN}

\* The buffer sizes: one sample and a whole buffer.
EnvSizes == {1, MaxSamples}

\* Calls of _build_envelope_block, each followed pass by pass through its loop.
EnvelopeNext ==
    \/ /\ loop.num_samples = 0
       /\ \E note \in EnvVoices, p \in EnvProfiles, pedal \in BOOLEAN, n \in EnvSizes :
             EnvCall(note, p, pedal, n) /\ UNCHANGED loopFrame
    \/ EnvIterate /\ UNCHANGED loopFrame

SpecEnvelope == StealInit /\ [][EnvelopeNext]_vars

\* ------------------------------------------------------------- PianoPlayerController synthesizers

\* Synthesizer instances one run creates (the default one included).
MaxSynths == 3

\* What a handler of the controller's synthesizer selection leaves alone.
ctlFrame == <<synthVars, threadVars, timeVars, limiterVars, auxVars, volVars,
              schedVars, recVars, splitVars, profileVars, loopVars, cin, ed, wav>>

\* hasattr(synth, "cleanup"): SoundFontSynth has the method, SimpleSynth has not.
HasCleanup(c, synth) == synth \in c.soundfonts

\* synth.cleanup() is called: the call is kept with what the engine held then,
\* its started streams, self._synth and the local `synth` of a callback in
\* progress, and with whether the MIDI input ran and stop() was the caller.
Cleanup(c, synth, e, in_stop) ==
    [c EXCEPT !.cleanups = Append(@, [synth |-> synth, in_stop |-> in_stop,
                                      midi |-> c.midi, started |-> e.active,
                                      engine_synth |-> synth_ref,
                                      cb_synth |-> IF cb.pc = 1 THEN cb.synth ELSE 0])]

\* Variant of RetireSynth: the replaced synthesizer is cleaned up at once.
RetireSynthNow(c, synth) ==
    IF c.synth # synth /\ HasCleanup(c, c.synth)
    THEN Cleanup(c, c.synth, StreamState, FALSE)
    ELSE c

\* _set_synth, lines 98-100: the replaced synthesizer is kept for stop().
RetireSynth(c, synth) ==
    IF c.synth # synth /\ HasCleanup(c, c.synth)
    THEN IF c.synth \in Range(c.cleanup_synths) THEN c
         ELSE [c EXCEPT !.cleanup_synths = Append(@, c.synth)]
    ELSE c

\* PianoPlayerController._set_synth(synth, name) on controller state c; the
\* instrument is applied to an instance that was constructed with it.
DoSetSynth(c, synth, name) ==
    [RetireSynth(c, synth) EXCEPT !.synth = synth, !.ever = @ \cup {synth},
                                  !.autoload = (name = "SoundFont")]

\* PianoPlayerController.__init__, lines 36-47: the default SimpleSynth is
\* created and handed to the engine; autoload is what the settings prefer.
CtlBuild(autoload) ==
    /\ ctl.phase = "none"
    /\ ctl' = [ctl EXCEPT !.phase = "built", !.synth = 1, !.created = 1,
                          !.ever = {1}, !.autoload = autoload]
    /\ SwapSynth(1)

\* PianoPlayerController.start(): the engine is started, the two timers are armed.
CtlStart ==
    /\ ctl.phase = "built"
    /\ ControllerStart
    /\ ctl' = [ctl EXCEPT !.phase = "running", !.init_timer = TRUE,
                          !.autoload_timer = ctl.autoload]
    /\ UNCHANGED cb

\* _complete_startup_init: the MIDI input is started.
CompleteStartupInit ==
    /\ ctl.phase = "running"
    /\ ctl.init_timer
    /\ ctl' = [ctl EXCEPT !.init_timer = FALSE, !.midi = TRUE]
    /\ UNCHANGED <<engineVars, cb>>

\* _on_midi_input_changed(port_name) for another port: the MIDI input is
\* stopped and a new one is started.
OnMidiInputChanged ==
    /\ ctl.phase = "running"
    /\ ctl' = [ctl EXCEPT !.midi = TRUE]
    /\ UNCHANGED <<engineVars, cb>>

\* _load_soundfont(path): a SoundFontSynth is created and, when the file loads,
\* installed.
LoadSoundfont(loaded) ==
    /\ ctl.created < MaxSynths
    /\ LET id == ctl.created + 1
           c == [ctl EXCEPT !.created = id, !.soundfonts = @ \cup {id}]
       IN IF loaded
          THEN ctl' = DoSetSynth(c, id, "SoundFont") /\ SwapSynth(id)
          ELSE ctl' = c /\ UNCHANGED <<engineVars, cb>>

\* _on_synth_changed(name)
OnSynthChanged(name, loaded) ==
    /\ ctl.phase = "running"
    /\ IF name = "Simple Synth"
       THEN /\ ctl.created < MaxSynths
            /\ LET id == ctl.created + 1 IN
               /\ ctl' = DoSetSynth([ctl EXCEPT !.created = id], id, name)
               /\ SwapSynth(id)
       ELSE IF name # "SoundFont" \/ HasCleanup(ctl, ctl.synth)
            THEN UNCHANGED <<ctl, engineVars, cb>>
            ELSE LoadSoundfont(loaded)

\* _on_soundfont_loaded(path)
OnSoundfontLoaded(loaded) ==
    /\ ctl.phase = "running"
    /\ LoadSoundfont(loaded)

\* _autoload_preferred_soundfont, 150 ms after start().
AutoloadPreferredSoundfont(loaded) ==
    /\ ctl.phase = "running"
    /\ ctl.autoload_timer
    /\ IF ~ctl.autoload \/ HasCleanup(ctl, ctl.synth)
       THEN ctl' = [ctl EXCEPT !.autoload_timer = FALSE] /\ UNCHANGED <<engineVars, cb>>
       ELSE /\ ctl.created < MaxSynths
            /\ LET id == ctl.created + 1
                   c == [ctl EXCEPT !.created = id, !.soundfonts = @ \cup {id},
                                    !.autoload_timer = FALSE]
               IN IF loaded
                  THEN ctl' = DoSetSynth(c, id, "SoundFont") /\ SwapSynth(id)
                  ELSE ctl' = c /\ UNCHANGED <<engineVars, cb>>

\* _on_audio_output_changed(device_index); stream.stop() returns when the
\* callback in progress has returned.
OnAudioOutputChanged(device_index, o1, o2) ==
    /\ ctl.phase = "running"
    /\ cb.pc = 0
    /\ SetOutputDevice(device_index, o1, o2)
    /\ UNCHANGED <<ctl, cb>>

\* stop(), lines 527-531: cleanup() of the instances in list that have the
\* method and were not seen yet, the engine's streams being e.
RECURSIVE CleanupAll(_, _, _, _)
CleanupAll(c, list, seen, e) ==
    IF list = << >> THEN c
    ELSE LET synth == Head(list) IN
         IF HasCleanup(c, synth) /\ synth \notin seen
         THEN CleanupAll(Cleanup(c, synth, e, TRUE), Tail(list), seen \cup {synth}, e)
         ELSE CleanupAll(c, Tail(list), seen, e)

\* PianoPlayerController.stop(): the MIDI input, the metronome and the engine
\* are stopped, then the synthesizers are cleaned up. stream.stop() returns
\* when the callback in progress has returned.
CtlStop ==
    /\ ctl.phase = "running"
    /\ cb.pc = 0
    /\ SetMetroState(MetronomeStop(MetroState("stop")))
    /\ EngineStop
    /\ LET c == [ctl EXCEPT !.phase = "stopped", !.midi = FALSE, !.init_timer = FALSE,
                            !.autoload_timer = FALSE]
       IN ctl' = CleanupAll(c, Append(c.cleanup_synths, c.synth), {},
                            DoStop(StreamState))
    /\ UNCHANGED <<now, cb>>

\* Names the synthesizer selector sends.
SynthNames == {"Simple Synth", "SoundFont", "Other"}
\* The device the output selector sends: another than the default one the
\* first time, the same from then on.
CtlDevices == {1}
\* Outcomes of the start() calls of a device change: the second one is made
\* only when the first one failed.
CtlOutcomes == {<<"ok", "ok">>} \cup ((StartOutcomes \ {"ok"}) \X StartOutcomes)
\* What the synthesizer returns to a callback: silence.
CtlBuffers == {[i \in 1..buffer_size |-> 0]}

CtlNext ==
    \/ \E a \in BOOLEAN : CtlBuild(a) /\ UNCHANGED <<ctlFrame, metroVars>>
    \/ CtlStart /\ UNCHANGED <<ctlFrame, metroVars>>
    \/ CompleteStartupInit /\ UNCHANGED <<ctlFrame, metroVars>>
    \/ OnMidiInputChanged /\ UNCHANGED <<ctlFrame, metroVars>>
    \/ \E name \in SynthNames, loaded \in BOOLEAN :
          OnSynthChanged(name, loaded) /\ UNCHANGED <<ctlFrame, metroVars>>
    \/ \E loaded \in BOOLEAN : OnSoundfontLoaded(loaded) /\ UNCHANGED <<ctlFrame, metroVars>>
    \/ \E loaded \in BOOLEAN :
          AutoloadPreferredSoundfont(loaded) /\ UNCHANGED <<ctlFrame, metroVars>>
    \/ \E d \in CtlDevices, o \in CtlOutcomes :
          OnAudioOutputChanged(d, o[1], o[2]) /\ UNCHANGED <<ctlFrame, metroVars>>
    \/ \E s \in active : CallbackRead(s) /\ UNCHANGED <<ctlFrame, metroVars, ctl>>
    \/ \E g \in CtlBuffers : CallbackFinish(g) /\ UNCHANGED <<ctlFrame, metroVars, ctl>>
    \/ CtlStop /\ UNCHANGED <<ctlFrame, m_click_callback>>

\* The controller from construction to stop(): synthesizer changes, device
\* changes and the audio callback in between.
SpecCtl == SplitStart /\ [][CtlNext]_vars

\* ------------------------------------------------------------- count-in behaviours

\* What a step of the controller's metronome leaves alone when the count-in
\* is watched.
countFrame == <<synthVars, threadVars, streamVars, volume, synth_ref, mix_queue,
                mix_current, mix_index, outdata, sink_data, elast, timeVars, limiterVars,
                swapVars, auxVars, volVars, schedVars, recVars, splitVars, profileVars,
                loopVars, ctl, ed, wav>>

\* _on_record_toggled(recording) with the count-in watched: a record-on toggle
\* that begins a count-in is kept with the beats it began for, the beat signals
\* emitted since, and whether it ended in the same call; a record-off toggle
\* during a count-in cancels it.
RecordToggledWatched(on, is_playing) ==
    /\ RecordToggled(on, is_playing)
    /\ cin' = IF on /\ ~count_in_active /\ count_in_enabled /\ count_in_beats > 0
                 /\ ~is_playing
              THEN [n |-> count_in_beats, beats |-> mlast'.beats,
                    was_recording |-> recording,
                    ended |-> IF count_in_active' THEN "none" ELSE "completed"]
              ELSE IF ~on /\ count_in_active THEN [cin EXCEPT !.ended = "cancelled"]
              ELSE cin

\* Any other step with the count-in watched: the beat signals it emits during
\* a count-in are counted.
CountInBeats ==
    cin' = IF count_in_active
           THEN [cin EXCEPT !.beats = @ + mlast'.beats,
                            !.ended = IF count_in_active' THEN "none" ELSE "completed"]
           ELSE cin

\* The tempo and the count-in lengths the user interface sends, and how long
\* the clock runs, in ticks.
CountInBpm == {400}
CountInLengths == {1, 2}
CountInTime == 5

CountInNext ==
    \/ TimerTimeout /\ CountInBeats /\ UNCHANGED countFrame
    \/ now < CountInTime /\ Tick /\ UNCHANGED <<countFrame, cin>>
    \/ \E on \in BOOLEAN : MetronomeToggled(on) /\ CountInBeats /\ UNCHANGED countFrame
    \/ \E bpm \in CountInBpm : MetronomeBpmChanged(bpm) /\ CountInBeats /\ UNCHANGED countFrame
    \/ \E enabled \in BOOLEAN :
          CountInEnabledChanged(enabled) /\ CountInBeats /\ UNCHANGED countFrame
    \/ \E beats \in CountInLengths :
          CountInBeatsChanged(beats) /\ CountInBeats /\ UNCHANGED countFrame
    \/ \E on, is_playing \in BOOLEAN :
          RecordToggledWatched(on, is_playing) /\ UNCHANGED countFrame

\* The controller's metronome and record toggle, the count-in watched.
SpecCountIn == SplitStart /\ [][CountInNext]_vars

\* ------------------------------------------------------------- recorded takes

\* Recordings started and merges made in one behaviour.
MaxTakes == 2
MaxMerges == 3

\* What the record toggle, the metronome and the MIDI recorder leave alone.
takeFrame == <<synthVars, threadVars, streamVars, volume, synth_ref, mix_queue,
               mix_current, mix_index, outdata, sink_data, elast, timeVars, limiterVars,
               swapVars, auxVars, volVars, schedVars, splitVars, profileVars, loopVars,
               ctl, cin, wav>>

\* _start_recording, lines 260-261: the offset is kept and the MIDI recorder
\* is started; the recording is one more take.
TakeStart(offset) ==
    /\ RecStart
    /\ ed' = [ed EXCEPT !.takes = @ + 1, !.recording_offset = offset]

\* MidiFileService.recorder_events_to_sustain(events, offset)
RecorderEventsToSustain(events, offset) ==
    LET sustain_events == SelectSeq(events, LAMBDA event : event.type = "sustain") IN
    [i \in 1..Len(sustain_events) |->
        [time |-> offset + sustain_events[i].time, on |-> sustain_events[i].value]]

\* _stop_recording, lines 287-291, and _merge_recorded_events: get_events() is
\* converted and, unless nothing comes of it, merged into the editor's lists;
\* the events are those of the take started last.
Merged(e, events, was_recording) ==
    LET note_evs == RecorderEventsToNotes(events, e.recording_offset)
        sustain_evs == RecorderEventsToSustain(events, e.recording_offset)
    IN IF events = << >> \/ (note_evs = << >> /\ sustain_evs = << >>) THEN e
       ELSE [e EXCEPT !.merges = Append(@, [take |-> e.takes, recording |-> was_recording,
                                            notes |-> note_evs, sustain |-> sustain_evs])]

\* _stop_recording: the MIDI recorder is stopped, its events are merged.
TakeStop ==
    /\ RecStop
    /\ ed' = Merged(ed, rec_events', Recording)

\* _on_record_toggled(True) reaches _start_recording: no count-in is active and
\* none is begun, or the one begun ends with the beat start() emits.
StartsRecording(is_playing) ==
    /\ ~count_in_active
    /\ (count_in_enabled /\ count_in_beats > 0 /\ ~is_playing) =>
          ~StartCountIn(MetroState("record_toggled")).count_in_active

\* _on_record_toggled(recording) with the MIDI recorder and the editor.
TakeRecordToggled(on, is_playing, offset) ==
    /\ RecordToggled(on, is_playing)
    /\ IF on
       THEN IF StartsRecording(is_playing) THEN TakeStart(offset)
            ELSE UNCHANGED <<recVars, ed>>
       ELSE TakeStop

\* The metronome's timer fires; the beat that ends a count-in starts the
\* recording.
TakeTimerTimeout(offset) ==
    /\ TimerTimeout
    /\ IF count_in_active /\ ~count_in_active' THEN TakeStart(offset)
       ELSE UNCHANGED <<recVars, ed>>

\* _handle_midi_in_main_thread(msg) for a note_on and a note_off: the
\* recorder is called while it is recording.
TakeNoteOn(note, velocity) ==
    IF rec_recording THEN RecNoteOn(note, velocity) ELSE UNCHANGED recVars

TakeNoteOff(note) ==
    IF rec_recording THEN RecNoteOff(note) ELSE UNCHANGED recVars

TakeNext ==
    \/ \E on, is_playing \in BOOLEAN :
          /\ on => ed.takes < MaxTakes
          /\ ~on => Len(ed.merges) < MaxMerges
          /\ TakeRecordToggled(on, is_playing, 0)
          /\ UNCHANGED takeFrame
    \/ ed.takes < MaxTakes /\ TakeTimerTimeout(0) /\ UNCHANGED takeFrame
    \/ now < CountInTime /\ Tick /\ UNCHANGED <<takeFrame, recVars, ed>>
    \/ \E enabled \in BOOLEAN :
          CountInEnabledChanged(enabled) /\ UNCHANGED <<takeFrame, recVars, ed>>
    \/ TakeNoteOn(60, 90) /\ UNCHANGED <<takeFrame, metroVars, audio_callback_fn, ed>>
    \/ TakeNoteOff(60) /\ UNCHANGED <<takeFrame, metroVars, audio_callback_fn, ed>>

\* The record toggle with and without count-in, the keyboard played meanwhile.
SpecTakes == SplitStart /\ [][TakeNext]_vars

\* ------------------------------------------------------------- WAV recording

\* Line 32: samples * 32767.
INT16_SCALE == 32767

\* What the recording sink, the record toggle and the callback leave alone.
wavFrame == <<synthVars, threadVars, timeVars, limiterVars, swapVars, auxVars, volVars,
              schedVars, splitVars, profileVars, loopVars, ctl, cin>>

\* A sample times 32767, the fraction dropped as astype does.
Scaled(x) ==
    IF x >= 0 THEN (x * INT16_SCALE) \div Full
    ELSE 0 - (((0 - x) * INT16_SCALE) \div Full)

\* What astype(np.int16) makes of a value: the value itself when it fits;
\* beyond the range the conversion is undefined, and a build either keeps the
\* low 16 bits or saturates.
ToInt16(v, build) ==
    IF v >= 0 - 32768 /\ v <= 32767 THEN v
    ELSE IF build = "wrap" THEN ((v + 32768) % 65536) - 32768
    ELSE IF v > 0 THEN 32767 ELSE 0 - 32768

Int16Builds == {"wrap", "saturate"}

\* _on_record_toggled(True) with no count-in and nothing recorded:
\* _start_recording starts the MIDI recorder, opens the file of a new
\* WavRecorder and installs its write as the sink.
WavRecordOn(is_playing) ==
    /\ wav.stop_pc = 0
    /\ ~recording
    /\ ~count_in_enabled
    /\ TakeRecordToggled(TRUE, is_playing, 0)
    /\ wav' = [wav EXCEPT !.files = Append(@, "open")]

\* _on_record_toggled(False) while recording, up to wav_recorder.py line 39:
\* no count-in to cancel, the MIDI recorder is stopped, the file is closed.
StopClose ==
    /\ wav.stop_pc = 0
    /\ recording
    /\ ~count_in_active
    /\ RecStop
    /\ wav' = [wav EXCEPT !.stop_pc = 1, !.files[ed.takes] = "closed"]
    /\ UNCHANGED <<metroVars, engineVars, ed>>

\* wav_recorder.py line 40: self._wav_file = None.
StopClear ==
    /\ wav.stop_pc = 1
    /\ wav' = [wav EXCEPT !.stop_pc = 2, !.files[ed.takes] = "none"]
    /\ UNCHANGED <<metroVars, engineVars, recVars, ed>>

\* controller.py lines 279-291: set_audio_callback(None), the recorder is
\* dropped, the events are merged.
StopFinish ==
    /\ wav.stop_pc = 2
    /\ RecordToggled(FALSE, FALSE)
    /\ ed' = Merged(ed, rec_events, rlast.was_recording)
    /\ wav' = [wav EXCEPT !.stop_pc = 0]
    /\ UNCHANGED <<recVars, streamVars, volume, synth_ref, mix_queue, mix_current,
                   mix_index, outdata, sink_data, elast>>

\* _audio_callback of stream s up to line 166: the buffer is mixed and written
\* to the device, and the sink is tested.
SinkCheck(s, g) ==
    /\ wav.cb_pc = 0
    /\ wav.failed = "none"
    /\ CallbackBody(s, synth_ref, g)
    /\ wav' = [wav EXCEPT !.cb_pc = IF audio_callback_fn THEN 1 ELSE 0]
    /\ UNCHANGED <<metroVars, recVars, ed>>

\* Line 167: self._audio_callback_fn is read again and called; the call is
\* WavRecorder.write up to its test of self._wav_file (line 28).
SinkCall ==
    /\ wav.cb_pc = 1
    /\ wav' = IF ~audio_callback_fn
              THEN [wav EXCEPT !.cb_pc = 0, !.failed = "null_sink"]
              ELSE IF wav.files[ed.takes] = "none"
              THEN [wav EXCEPT !.cb_pc = 0]
              ELSE [wav EXCEPT !.cb_pc = 2, !.cb_rec = ed.takes]
    /\ UNCHANGED <<metroVars, engineVars, recVars, ed>>

\* wav_recorder.py lines 32-34: the samples are converted and
\* self._wav_file.writeframes is called on what self._wav_file is by then.
WriteFrames(build) ==
    /\ wav.cb_pc = 2
    /\ LET file == wav.files[wav.cb_rec] IN
       wav' = IF file = "open"
              THEN [wav EXCEPT !.cb_pc = 0,
                               !.written = [i \in DOMAIN sink_data |->
                                               ToInt16(Scaled(sink_data[i]), build)],
                               !.sent = outdata]
              ELSE [wav EXCEPT !.cb_pc = 0,
                               !.failed = IF file = "closed" THEN "closed_file"
                                          ELSE "none_file"]
    /\ UNCHANGED <<metroVars, engineVars, recVars, ed>>

\* What the synthesizer returns to a callback while a take is recorded:
\* silence, or every sample at 1.0.
WavBuffers == {[i \in 1..buffer_size |-> 0], [i \in 1..buffer_size |-> SampleOne]}
\* The click queued meanwhile.
WavClips == {<<SampleOne>>}

WavNext ==
    \/ synth_ref = 0 /\ SetSynth(1) /\ UNCHANGED <<wavFrame, metroVars, recVars, ed, wav>>
    \/ ControllerStart /\ UNCHANGED <<wavFrame, metroVars, recVars, ed, wav>>
    \/ \E c \in WavClips : QueueAudio(c) /\ UNCHANGED <<wavFrame, metroVars, recVars, ed, wav>>
    \/ \E is_playing \in BOOLEAN :
          ed.takes < MaxTakes /\ WavRecordOn(is_playing)
          /\ UNCHANGED <<wavFrame, streamVars, volume, synth_ref, mix_queue, mix_current,
                         mix_index, outdata, sink_data, elast>>
    \/ StopClose /\ UNCHANGED wavFrame
    \/ StopClear /\ UNCHANGED wavFrame
    \/ StopFinish /\ UNCHANGED wavFrame
    \/ \E s \in active, g \in WavBuffers : SinkCheck(s, g) /\ UNCHANGED wavFrame
    \/ SinkCall /\ UNCHANGED wavFrame
    \/ \E build \in Int16Builds : WriteFrames(build) /\ UNCHANGED wavFrame

\* _stop_recording on the control thread against the audio callback at the
\* recording sink, each taken line by line.
SpecWav == SplitStart /\ [][WavNext]_vars

\* ------------------------------------------------------------- claims: SimpleSynth

\* C1: the voice table never holds more than MAX_VOICES voices.
C1_VoiceBound == Len(notes) <= MAX_VOICES

\* C2: every voice's envelope is within [0,1], and so is every envelope sample
\* of a buffer of any size generated from a reachable state.
C2_EnvelopeRange ==
    \A i \in DOMAIN notes :
        /\ notes[i].envelope \in 0..EnvOne
        /\ \A k \in 1..MaxSamples :
              \A x \in Range(BuildEnvelopeBlock(notes[i], prof, sustain, k).envelope) :
                  x \in 0..EnvOne

\* C2 witness: generate() has taken a voice across the attack/decay boundary, and
\* a stolen voice sits at the cap, less than one release step above 0.
C2_Witness ==
    /\ \E i \in DOMAIN notes : notes[i].stage = "decay" /\ notes[i].envelope < EnvOne
    /\ \E i \in DOMAIN notes :
          /\ notes[i].stage = "release"
          /\ notes[i].envelope = STEAL_CAP
          /\ notes[i].envelope > 0
          /\ notes[i].envelope < EnvOne \div prof.release

StageRank(stage) ==
    CASE stage = "attack" -> 0
      [] stage = "decay" -> 1
      [] stage = "sustain" -> 2
      [] stage = "pedal" -> 3
      [] stage = "release" -> 4
      [] OTHER -> 5

\* C7: a voice's stage only moves forward along attack, decay, sustain,
\* pedal, release, off: no step other than a note_on for its key moves a voice
\* to an earlier stage (in particular from release back to pedal).
C7_StageForward ==
    [][\A n \in NoteNumbers :
          (HasNote(notes, n) /\ HasNote(notes', n) /\ last' # Op("note_on", n))
              => StageRank(NoteAt(notes', n).stage) >= StageRank(NoteAt(notes, n).stage)]_vars

\* C8: a voice leaves the table only in generate(), it was in release or pedal
\* before that call, and its envelope block ends in stage off at envelope 0.
C8_OffAndRemoval ==
    [][\A n \in NoteNumbers :
          (HasNote(notes, n) /\ ~HasNote(notes', n))
              => /\ last'.op = "generate"
                 /\ NoteAt(notes, n).stage \in {"release", "pedal"}
                 /\ LET r == BuildEnvelopeBlock(NoteAt(notes, n), prof, sustain,
                                                buffer_size).note
                    IN r.stage = "off" /\ r.envelope = 0]_vars

\* C8 witness: the last generate() removed a voice.
C8_Witness == last.op = "generate" /\ last.note > 0

\* C9: note_off(n) of a voice in the table sets released, and moves it to pedal
\* and adds n to the sustained set if the pedal is down, else to release;
\* note_off(n) of a key not in the table changes nothing.
C9_NoteOff ==
    [][\A n \in NoteNumbers :
          last' = Op("note_off", n) =>
              /\ sustain' = sustain
              /\ IF HasNote(notes, n)
                 THEN /\ Len(notes') = Len(notes)
                      /\ \A i \in DOMAIN notes :
                            IF notes[i].key = n
                            THEN /\ notes'[i].released
                                 /\ notes'[i].stage = IF sustain THEN "pedal" ELSE "release"
                                 /\ notes'[i].key = n
                                 /\ notes'[i].envelope = notes[i].envelope
                                 /\ notes'[i].velocity = notes[i].velocity
                            ELSE notes'[i] = notes[i]
                      /\ sustained_notes' = IF sustain THEN sustained_notes \cup {n}
                                            ELSE sustained_notes
                 ELSE notes' = notes /\ sustained_notes' = sustained_notes]_vars

\* C9 witness: note_off has just moved a voice to pedal under a held pedal.
C9_Witness ==
    /\ last.op = "note_off"
    /\ sustain
    /\ HasNote(notes, last.note)
    /\ NoteAt(notes, last.note).stage = "pedal"
    /\ last.note \in sustained_notes

\* C10: after sustain_off() no voice is in stage pedal (each one that was is in
\* release), the pedal is up and the sustained set is empty.
C10_SustainOff ==
    [][last'.op = "sustain_off" =>
          /\ ~sustain'
          /\ sustained_notes' = {}
          /\ PedalKeys(notes') = {}
          /\ \A n \in PedalKeys(notes) :
                HasNote(notes', n) /\ NoteAt(notes', n).stage = "release"]_vars

\* C10 witness: sustain_off() has just found a voice in stage pedal.
C10_Witness == last.op = "sustain_off" /\ last.note > 0

C12_StealJump ==
    [][\A n \in NoteNumbers :
          (last' = Op("note_on", n) /\ Len(notes) >= MAX_VOICES) =>
              \A i \in DOMAIN notes :
                  notes[i].key # n =>
                      notes[i].envelope - notes'[i].envelope <= STEAL_CAP]_vars

\* A voice that has been released and is decaying.
Released(voice) == voice.released /\ voice.stage \in {"pedal", "release"}

\* The samples of a block never rise, from the envelope the block starts at.
NonIncreasing(envelope, block) ==
    \A k \in DOMAIN block :
        block[k] <= (IF k = 1 THEN envelope ELSE block[k - 1])

\* C16: the envelope of a released voice never rises while the voice is in
\* the table: no generate, note_off, sustain_on, sustain_off or steal raises
\* it, the samples generate() produces for it never rise either, and after
\* sustain_off() each voice that was in pedal is in release and its next
\* buffer falls by dt / release per sample down to 0.
C16_ReleasedMonotone ==
    [][/\ \A n \in NoteNumbers :
            (HasNote(notes, n) /\ Released(NoteAt(notes, n))
                /\ HasNote(notes', n) /\ last' # Op("note_on", n))
              => /\ Released(NoteAt(notes', n))
                 /\ NoteAt(notes', n).envelope <= NoteAt(notes, n).envelope
       /\ last'.op = "generate" =>
            \A i \in DOMAIN notes :
                Released(notes[i]) =>
                    NonIncreasing(notes[i].envelope,
                        BuildEnvelopeBlock(notes[i], prof, sustain, buffer_size).envelope)
       /\ last'.op = "sustain_off" =>
            \A n \in PedalKeys(notes) :
                /\ HasNote(notes', n)
                /\ NoteAt(notes', n).stage = "release"
                /\ NoteAt(notes', n).envelope = NoteAt(notes, n).envelope
                /\ LET e == NoteAt(notes', n).envelope
                       block == BuildEnvelopeBlock(NoteAt(notes', n), prof', sustain',
                                                   buffer_size).envelope
                   IN \A k \in 1..buffer_size :
                          block[k] = Max(e - k * (EnvOne \div prof.release), 0)]_vars

\* C16 witness: sustain_off() has just moved a voice from pedal to release part
\* way down its decay, next to a stolen voice.
C16_Witness ==
    /\ last.op = "sustain_off"
    /\ last.note > 0
    /\ \E i, j \in DOMAIN notes :
          /\ Released(notes[i])
          /\ notes[i].stage = "release"
          /\ notes[i].envelope > STEAL_CAP
          /\ notes[i].envelope < prof.sustain_level
          /\ i # j
          /\ Released(notes[j])
          /\ notes[j].envelope = STEAL_CAP

\* ------------------------------------------------------------- claims: one voice, timed

\* C13: a note released under a held pedal decays on its own: with no
\* sustain_off after the note_off, the voice is off and out of the table
\* (active_notes_count() is 0) once generate() has produced pedal_release of
\* audio and the buffer in progress, which is within pedal_release plus one second.
C13_PedalDecays ==
    (clk.since_off >= 0 /\ clk.held /\ clk.since_off >= prof.pedal_release + buffer_size)
        => Len(notes) = 0

\* C13 witness: a voice released at full level under the pedal took several
\* buffers of pedal decay and is gone, the pedal still down.
C13_Witness ==
    /\ clk.held
    /\ sustain
    /\ clk.off_env = EnvOne
    /\ clk.since_off >= prof.pedal_release
    /\ clk.since_off > buffer_size
    /\ last = Op("generate", 1)
    /\ Len(notes) = 0

\* C14: after note_on(note, 100), polling generate() alone brings the voice to
\* off after attack + decay + release of audio, give or take a buffer: once
\* that much and a buffer more has been generated with no note_off, the voice
\* is off and out of the table.
C14_OffAfterAttackDecayRelease ==
    (clk.since_off = -1
        /\ clk.since_on >= prof.attack + prof.decay + prof.release + buffer_size)
        => Len(notes) = 0

\* C14 as amended: polling generate() brings the voice to sustain after
\* attack + decay of audio, at the first buffer boundary from there, and it
\* stays there at the sustain level until note_off; released there with the
\* pedal up, it is off and out of the table after sustain_level * release of
\* audio, at the first buffer boundary from there, and not before.
C14_SustainThenRelease ==
    /\ (clk.since_on >= 0 /\ clk.since_off = -1) =>
          /\ Len(notes) = 1
          /\ IF clk.since_on >= prof.attack + prof.decay
             THEN notes[1].stage = "sustain" /\ notes[1].envelope = prof.sustain_level
             ELSE notes[1].stage \in {"attack", "decay"}
    /\ (clk.off_stage = "sustain" /\ clk.dry) =>
          IF clk.since_off * EnvOne >= prof.sustain_level * prof.release
          THEN Len(notes) = 0
          ELSE Len(notes) = 1 /\ notes[1].stage = "release"

\* C14 witness: a voice that was held in sustain beyond attack + decay + release
\* and then released with the pedal up has just left the table.
C14_Witness ==
    /\ clk.off_stage = "sustain"
    /\ clk.dry
    /\ clk.since_on - clk.since_off >= prof.attack + prof.decay + prof.release
    /\ clk.since_off > 0
    /\ last = Op("generate", 1)
    /\ Len(notes) = 0

\* C15: a voice released at its sustain level under a held pedal keeps a
\* non-zero envelope for at least pedal_release / 2 of audio: the generate()
\* that takes it out of the table comes no earlier than that after the note_off.
C15_AudibleHalfPedalRelease ==
    (clk.off_stage = "sustain" /\ clk.held /\ last = Op("generate", 1) /\ Len(notes) = 0)
        => 2 * clk.since_off >= prof.pedal_release

\* ------------------------------------------------------------- claims: limiter

\* C17: whenever the peak of the mixed buffer exceeds 1.0, the buffer the
\* limiter returns in that same call peaks at no more than the target peak
\* 0.92 plus a small epsilon (0.01), whatever the limiter gain was before.
C17_LimiterPeak ==
    (lim_in # << >> /\ Peak(lim_in) > GainOne)
        => Peak(lim_out) <= LIMITER_TARGET_PEAK + GainOne \div 100

\* ------------------------------------------------------------- claims: threads

\* C4: while a generate() call is in progress (the audio thread holds the lock)
\* no other operation reads or writes the synthesizer's shared state: no step
\* taken meanwhile changes the voice table, the pedal state or the profile.
C4_MutualExclusion ==
    [][(lock = "audio" /\ lock' = "audio")
          => UNCHANGED <<notes, sustain, sustained_notes, instrument, prof>>]_vars

\* ------------------------------------------------------------- claims: AudioEngine

\* C3: whatever the volume in [0,1], the synthesizer's samples and the pending
\* clip, every sample the audio callback writes to the output device is within
\* [-1,1].
C3_OutputBound == \A i \in DOMAIN outdata : outdata[i] >= -Full /\ outdata[i] <= Full

\* A callback whose mix went beyond full scale on both sides and was clipped.
C3_Witness ==
    /\ elast.op = "callback"
    /\ volume > 0
    /\ \E i \in DOMAIN sink_data : sink_data[i] > Full /\ outdata[i] = Full
    /\ \E j \in DOMAIN sink_data : sink_data[j] < -Full /\ outdata[j] = -Full

\* C6: after stop() has returned no audio callback fires, whatever start(),
\* stop() and set_output_device() calls came before: a callback only runs on an
\* engine that holds a stream.
C6_NoCallbackAfterStop == elast.op = "callback" => stream # 0

\* The clip the next callback mixes from, and the cursor it starts at.
PendingClip ==
    IF mix_current = NoClip /\ mix_queue # << >> THEN Head(mix_queue) ELSE mix_current
PendingIndex ==
    IF mix_current = NoClip /\ mix_queue # << >> THEN 0 ELSE mix_index

\* C18: whenever a callback completes, with set_synth calls landing anywhere
\* around its read of the reference, generate was called exactly once, on the
\* one instance the callback read, which is a reference that was published when
\* the callback started or was published during it; and when the callback read
\* no synthesizer, generate was not called and the output is silence plus the
\* pending clip's samples.
C18_SwapStep ==
    (cb.pc = 1 /\ cb'.pc = 0) =>
        /\ cb'.calls = IF cb.synth # 0 THEN <<cb.synth>> ELSE << >>
        /\ \A i \in DOMAIN cb'.calls : cb'.calls[i] # 0 /\ cb'.calls[i] \in cb.seen
        /\ cb.synth = 0 =>
              \A i \in 1..buffer_size :
                  outdata'[i] = ClipSample(
                      IF PendingIndex + i <= Len(PendingClip)
                      THEN PendingClip[PendingIndex + i] * volume ELSE 0)

C18_AtomicSwap == [][C18_SwapStep]_vars

\* A callback has completed after calling generate on instance 1 although
\* set_synth published instance 2 between its read and its call.
C18_Witness ==
    /\ cb.pc = 0
    /\ cb.calls = <<1>>
    /\ synth_ref = 2
    /\ cb.seen = {1, 2}
    /\ elast = EOp("callback", TRUE)

\* The samples of the clips in a queue, in queue order.
RECURSIVE Flatten(_)
Flatten(q) == IF q = << >> THEN << >> ELSE Head(q) \o Flatten(Tail(q))

\* Every queued clip sample is heard, waiting in the clip in progress from its
\* cursor on, or waiting in the queue, in queueing order.
ClipsConserved ==
    aux.queued = aux.mixed \o SubSeq(mix_current, mix_index + 1, Len(mix_current))
                           \o Flatten(mix_queue)

\* C19: across queue_audio calls and callbacks the clip samples heard so far,
\* then the rest of the clip in progress from the saved cursor, then the
\* waiting clips, are exactly the samples queued, in queueing order (FIFO,
\* contiguous, nothing dropped, repeated or interleaved); a clip leaves the
\* queue only when no clip is in progress; an empty clip leaves the queue as it is.
C19_ClipStep ==
    /\ ClipsConserved'
    /\ Len(mix_queue') < Len(mix_queue) =>
          /\ mix_current = NoClip
          /\ mix_queue' = Tail(mix_queue)
    /\ elast' = EOp("queue_audio", FALSE) =>
          /\ mix_queue' = mix_queue
          /\ mix_current' = mix_current
          /\ mix_index' = mix_index

C19_ClipsInOrder == [][C19_ClipStep]_vars

\* Three clips were queued, the long one first and then two that waited in the
\* queue together, and all their samples have been heard.
C19_Witness ==
    /\ aux.n = MaxClips
    /\ Len(aux.queued) > 4
    /\ aux.queued[1] = -SampleOne
    /\ aux.mixed = aux.queued
    /\ mix_current = NoClip

\* The device a set_output_device argument stands for (negative: the default, None).
Requested == IF dlast.arg < 0 THEN -1 ELSE dlast.arg

\* C20: after set_output_device(id): on a running engine and another device,
\* the stream was stopped and start() called on the new device, and either that
\* succeeded, the call returned True and the engine runs on the new device, or
\* it failed, the device is the previous one again, start() was called once
\* more, on the previous device, and the call returned False; no exception
\* left the call; on an engine not running the device is recorded, nothing was
\* opened and True returned; for the current device nothing happened and True
\* was returned.
C20_SetOutputDevice ==
    elast.op = "set_output_device" =>
        /\ ~dlast.raised
        /\ elast.ret = dlast.ret
        /\ IF Requested = dlast.previous
           THEN /\ dlast.ret
                /\ dlast.trace = << >>
                /\ output_device = dlast.previous
                /\ running = dlast.was_running
                /\ stream = dlast.old_stream
           ELSE IF ~dlast.was_running
           THEN /\ dlast.ret
                /\ dlast.trace = << >>
                /\ output_device = Requested
                /\ ~running
                /\ stream = dlast.old_stream
           ELSE IF dlast.ret
           THEN /\ dlast.trace = << <<"stop", dlast.old_stream>>, <<"start", Requested>> >>
                /\ output_device = Requested
                /\ running
                /\ stream \in active
           ELSE /\ dlast.trace = << <<"stop", dlast.old_stream>>, <<"start", Requested>>,
                                   <<"start", dlast.previous>> >>
                /\ output_device = dlast.previous

\* set_output_device on a running engine returned False after both restarts
\* failed: the engine is left stopped on the previous device.
C20_Witness ==
    /\ elast = EOp("set_output_device", FALSE)
    /\ dlast.was_running
    /\ Len(dlast.trace) = 3
    /\ ~running
    /\ output_device = dlast.previous

\* C21: the engine's volume is always within [0,1]: 0.8 until the setter is
\* called, and after a call with v it is v when v is within [0,1], 0 when v is
\* negative and 1 when v is above 1.
C21_VolumeRange ==
    /\ volume >= 0
    /\ volume <= VolOne
    /\ IF vlast = << >> THEN volume = (8 * VolOne) \div 10
       ELSE volume = (IF vlast[1] < 0 THEN 0 ELSE IF vlast[1] > VolOne THEN VolOne
                      ELSE vlast[1])

\* A callback has run with the volume at 1 after the setter was handed more than 1.
C21_Witness ==
    /\ vlast # << >>
    /\ vlast[1] > VolOne
    /\ volume = VolOne
    /\ elast.op = "callback"

\* ------------------------------------------------------------- claims: Metronome

\* C5: once stop() has returned, no beat event is delivered until the next
\* start(): no operation delivers a beat signal or a click callback while the
\* metronome is stopped, a stop() made by the handler of the beat being emitted
\* included.
C5_NoBeatAfterStop == mlast.late = 0

\* ------------------------------------------------------------- claims: Metronome alone

\* C22: start() on a stopped metronome emits one beat at once, numbered 1;
\* every beat emitted moves beat_index to (beat_index mod beats_per_cycle) + 1
\* and selects the accent click exactly when the new beat_index is the accent
\* beat; while neither the meter nor the counter is set, the k-th beat since
\* start() is numbered ((k - 1) mod beats_per_cycle) + 1; start() on a running
\* metronome emits nothing and leaves beat_index alone.
C22_BeatStep ==
    /\ (mlast'.op = "start" /\ now' = now /\ ~m_running) =>
          /\ mlast'.beats = 1
          /\ mlast'.clicks = 1
          /\ m_beat_index' = 1
          /\ m_running'
    /\ (mlast'.op = "start" /\ now' = now /\ m_running) =>
          /\ mlast'.beats = 0
          /\ mlast'.clicks = 0
          /\ m_beat_index' = m_beat_index
    /\ (mlast'.op = "timeout" /\ now' = now) =>
          /\ mlast'.beats = 1
          /\ m_beat_index' = (m_beat_index % m_beats_per_cycle) + 1
    /\ (mlast'.op \in {"start", "timeout"} /\ now' = now /\ mlast'.beats = 1) =>
          /\ mlast'.accent \in {"accent", "normal"}
          /\ (mlast'.accent = "accent") <=> (m_beat_index' = m_accent_beat)
    /\ (m_running' /\ ~sched'.disturbed) =>
          m_beat_index' = ((sched'.n - 1) % m_beats_per_cycle') + 1

C22_BeatNumbering == [][C22_BeatStep]_vars

\* The beat after a full cycle: the counter has wrapped to 1 on an undisturbed
\* meter of at least two beats, and the normal click was selected.
C22_Witness ==
    /\ m_running
    /\ ~sched.disturbed
    /\ m_beats_per_cycle >= 2
    /\ sched.n = m_beats_per_cycle + 1
    /\ m_beat_index = 1
    /\ mlast.op = "timeout"
    /\ mlast.accent = "normal"

\* C26: beats_per_cycle is at least 1 and the accent beat is within
\* 1..beats_per_cycle in every state, whatever integers set_meter is handed and
\* in whatever order the metronome's operations are called.
C26_MeterRange ==
    /\ m_beats_per_cycle >= 1
    /\ m_accent_beat >= 1
    /\ m_accent_beat <= m_beats_per_cycle

\* set_meter(2, 5) has run: the accent beat was capped at the two beats of the cycle.
C26_Witness ==
    /\ mlast.op = "set_meter"
    /\ m_beats_per_cycle = 2
    /\ m_accent_beat = 2

\* C25: after the bpm setter was handed b, bpm is b clamped to [20,300]; on a
\* running metronome the deadline is now + 60/bpm and the one timer is armed
\* for it; on a stopped metronome the deadline is none and no timer is armed;
\* the setter emits no beat.
C25_BpmStep ==
    (mlast'.op = "bpm" /\ now' = now) =>
        /\ m_bpm' = (IF mlast'.arg < 20 THEN 20 ELSE IF mlast'.arg > 300 THEN 300
                     ELSE mlast'.arg)
        /\ mlast'.beats = 0
        /\ mlast'.clicks = 0
        /\ m_running' = m_running
        /\ IF m_running
           THEN /\ m_next_beat_at' = now + BeatInterval(m_bpm')
                /\ m_timer' = m_next_beat_at'
           ELSE /\ m_next_beat_at' = NoTime
                /\ m_timer' = NoTime

C25_SetBpm == [][C25_BpmStep]_vars

\* C23: a firing of the timer, however late, emits exactly one beat and one
\* click, leaves the deadline strictly after the current time and on the grid
\* start time + k * beat interval (the tempo being the one the metronome was
\* started with), and arms the one timer for that deadline.
C23_FiringStep ==
    (mlast'.op = "timeout" /\ now' = now) =>
        /\ mlast'.beats = 1
        /\ mlast'.clicks = 1
        /\ m_next_beat_at' > now
        /\ m_next_beat_at' > m_next_beat_at
        /\ (m_next_beat_at' - sched.start_at) % BeatInterval(m_bpm) = 0
        /\ m_timer' = m_next_beat_at'

C23_OneBeatOnGrid == [][C23_FiringStep]_vars

\* A firing more than two intervals late has happened on a metronome started at
\* time 1: beats were skipped, not flooded, and the deadline is still on the grid.
C23_Witness ==
    /\ mlast.op = "timeout"
    /\ sched.start_at = 1
    /\ sched.lateness > BeatInterval(m_bpm)
    /\ m_next_beat_at > now
    /\ m_next_beat_at - sched.start_at > (sched.n + 1) * BeatInterval(m_bpm)

\* The beats a metronome at 120 BPM emits in RunSeconds seconds, give or take one.
BeatsExpected(n) ==
    LET due == (RunSeconds * TicksPerSecond) \div BeatInterval(DEFAULT_BPM)
    IN n >= due - 1 /\ n <= due + 1

\* RunSeconds seconds after start() at 120 BPM, no firing having been late by
\* more than limit ticks and none being that late now.
RanWithJitter(limit) ==
    /\ m_running
    /\ m_bpm = DEFAULT_BPM
    /\ now - sched.start_at = RunSeconds * TicksPerSecond
    /\ sched.lateness <= limit
    /\ now - m_timer <= limit

EventsFrom(events, type, note, from) ==
    {i \in from..Len(events) : events[i].type = type /\ events[i].note = note}

\* Every note_on can be given a note_off of its note at a later position, no
\* note_off being given twice: from every position on there are at least as
\* many note_offs of a note as note_ons.
AllClosed(events) ==
    \A note \in RecNotes, from \in 1..Len(events) :
        Cardinality(EventsFrom(events, "note_on", note, from))
            <= Cardinality(EventsFrom(events, "note_off", note, from))

\* The note_ons of a note that no later note_off can be given to.
RECURSIVE Missing(_, _, _)
Missing(events, note, from) ==
    IF from > Len(events) THEN 0
    ELSE Max(Cardinality(EventsFrom(events, "note_on", note, from))
                - Cardinality(EventsFrom(events, "note_off", note, from)),
             Missing(events, note, from + 1))

\* What stop() appended to the events it found.
Appended == SubSeq(rec_events, Len(rlast.before) + 1, Len(rec_events))

\* C27: after stop() on an active recording the recorder is not recording, the
\* events it had are kept, every note_on has its own later note_off of the same
\* note, and what was appended is, for each note, as many note_offs as were
\* missing, all at the stop time.
C27_NoOpenNote ==
    (rlast.op = "stop" /\ rlast.was_recording) =>
        /\ ~rec_recording
        /\ SubSeq(rec_events, 1, Len(rlast.before)) = rlast.before
        /\ AllClosed(rec_events)
        /\ \A note \in RecNotes :
              Cardinality(EventsFrom(Appended, "note_off", note, 1))
                  = Missing(rlast.before, note, 1)
        /\ \A i \in DOMAIN Appended :
              Appended[i].type = "note_off" /\ Appended[i].time = rlast.stop_time

\* stop() found note 60 pressed twice and released once, and appended the one
\* note_off that was missing.
C27_Witness ==
    /\ rlast.op = "stop"
    /\ rlast.was_recording
    /\ Cardinality(EventsFrom(rlast.before, "note_on", 60, 1)) = 2
    /\ Cardinality(EventsFrom(rlast.before, "note_off", 60, 1)) = 1
    /\ Len(Appended) = 1
    /\ rlast.stop_time > 0

\* The sustain events of a list, in order.
SustainEvents(events) == SelectSeq(events, LAMBDA event : event.type = "sustain")

\* The last sustain event of the list has value true.
PedalLeftDown(events) ==
    LET sustains == SustainEvents(events)
    IN  sustains # << >> /\ sustains[Len(sustains)].value

\* C28: stop() on an active recording appends exactly one sustain event, with
\* value false and the stop time, when the last sustain event recorded before
\* it has value true, and no sustain event otherwise; the last sustain event
\* of a finished recording, if there is one, has value false.
C28_SustainRelease ==
    /\ (rlast.op = "stop" /\ rlast.was_recording) =>
          SustainEvents(Appended)
              = IF PedalLeftDown(rlast.before)
                THEN <<[type |-> "sustain", value |-> FALSE, time |-> rlast.stop_time]>>
                ELSE << >>
    /\ ~rec_recording => ~PedalLeftDown(rec_events)

\* stop() found the pedal down, after it had been pressed, released and pressed
\* again, and appended the release.
C28_Witness ==
    /\ rlast.op = "stop"
    /\ rlast.was_recording
    /\ PedalLeftDown(rlast.before)
    /\ Len(SustainEvents(rlast.before)) = 3
    /\ Len(SustainEvents(rec_events)) = 4
    /\ rlast.stop_time > 0

\* The NoteEvent a note_on event asks for, but for its duration.
NoteOf(event, offset) ==
    [note |-> event.note, start_time |-> offset + event.time, velocity |-> event.velocity]

\* The note_on events of the list that ask for the note.
NoteOnsOf(events, offset, wanted) ==
    {i \in DOMAIN events : events[i].type = "note_on" /\ NoteOf(events[i], offset) = wanted}

\* The NoteEvents that are the note, whatever their duration.
NotesLike(converted, wanted) ==
    {k \in DOMAIN converted :
        [note |-> converted[k].note, start_time |-> converted[k].start_time,
         velocity |-> converted[k].velocity] = wanted}

\* The NoteEvent has the duration from a note_on that asks for it to a later
\* note_off of its note.
DurationFits(events, offset, note) ==
    \E i \in DOMAIN events, j \in DOMAIN events :
        /\ i < j
        /\ events[i].type = "note_on"
        /\ NoteOf(events[i], offset) = [note |-> note.note, start_time |-> note.start_time,
                                        velocity |-> note.velocity]
        /\ events[j].type = "note_off"
        /\ events[j].note = note.note
        /\ note.duration = Max(0, events[j].time - events[i].time)

\* C29: the conversion of a finished recording, in which every note_on is
\* closed, yields one NoteEvent for each note_on, with the note_on's note and
\* velocity, the start time offset + its time, and the duration up to a later
\* note_off of the note, and no other NoteEvent.
C29_OneNotePerNoteOn ==
    (rlast.op = "convert" /\ AllClosed(rec_events)) =>
        /\ \A i \in DOMAIN rec_events :
              rec_events[i].type = "note_on" =>
                  LET wanted == NoteOf(rec_events[i], rlast.offset)
                  IN  Cardinality(NotesLike(note_events, wanted))
                          = Cardinality(NoteOnsOf(rec_events, rlast.offset, wanted))
        /\ \A k \in DOMAIN note_events : DurationFits(rec_events, rlast.offset, note_events[k])
        /\ Len(note_events) = Cardinality({i \in DOMAIN rec_events :
                                              rec_events[i].type = "note_on"})

\* ------------------------------------------------------------- claims: buffer splits

\* C30: the envelope does not depend on how the samples are split into
\* buffers: for every voice a generate() call finds, asking for a + b samples
\* in one call, for a and then b samples in two calls, and for one sample a + b
\* times, gives the same envelope values, the same final envelope and the same
\* final stage, and the table keeps the voices that are not off.
C30_SplitIndependent ==
    split.op = "generate" =>
        /\ split.parts = split.whole
        /\ split.single = split.whole
        /\ notes = RemoveOff([i \in DOMAIN split.whole |-> split.whole[i].note])

\* A Piano voice went from the start of its attack through the decay into the
\* sustain within one call of a + b samples, the first of the two calls having
\* ended in the middle of the decay, while another voice released to off.
C30_Witness ==
    /\ split.op = "generate"
    /\ instrument = "Piano"
    /\ \E i \in DOMAIN split.before :
          /\ split.before[i].stage = "attack"
          /\ split.before[i].envelope = 0
          /\ LET first == BuildEnvelopeBlock(split.before[i], prof, sustain, split.a).note
             IN  first.stage = "decay" /\ first.envelope < EnvOne
          /\ split.whole[i].note.stage = "sustain"
          /\ Len(split.whole[i].envelope) = split.a + split.b
    /\ \E j \in DOMAIN split.before :
          /\ split.before[j].stage = "release"
          /\ split.before[j].envelope > STEAL_CAP
          /\ split.whole[j].note.stage = "off"

\* ------------------------------------------------------------- claims: keys of the voice table

\* The step is note_on(n) for a key that has a voice.
Retrigger(n) == last' = Op("note_on", n) /\ HasNote(notes, n)

\* C36: note_on(n) for a key already in the voice table changes no other
\* voice and no other key's membership in the sustained set, also when the
\* table is full.
C36_RetriggerStep ==
    \A n \in NoteNumbers :
        Retrigger(n) =>
            /\ \A m \in Keys(notes) \ {n} :
                  HasNote(notes', m) /\ NoteAt(notes', m) = NoteAt(notes, m)
            /\ sustained_notes' \ {n} = sustained_notes \ {n}

C36_RetriggerOnlyReplaces == [][C36_RetriggerStep]_vars

\* Every key of the sustained set has a voice, released and held by the pedal.
SustainedArePedalVoices(ns, held) ==
    \A n \in held :
        HasNote(ns, n) /\ NoteAt(ns, n).released /\ NoteAt(ns, n).stage = "pedal"

\* C35: after every call the keys of the sustained set are those of live
\* voices that are released and in the pedal stage, and sustain_off() leaves
\* every voice alone whose key is still held (no note_off since its note_on).
C35_SustainedStep ==
    /\ SustainedArePedalVoices(notes', sustained_notes')
    /\ last'.op = "sustain_off" =>
          \A i \in DOMAIN notes :
              ~notes[i].released => (i \in DOMAIN notes' /\ notes'[i] = notes[i])

C35_SustainOffSparesHeld == [][C35_SustainedStep]_vars

\* ------------------------------------------------------------- claims: instrument profile

\* C32: set_instrument leaves the voice table, the pedal and the sustained
\* set as they were; it stores the profile's envelope and filter parameters,
\* the filter coefficients computed from them and a zero filter history; a
\* name that is no profile selects the default instrument.
C32_ProfileStep ==
    last'.op = "set_instrument" =>
        /\ notes' = notes
        /\ sustain' = sustain
        /\ sustained_notes' = sustained_notes
        /\ instrument' = IF ilast'.name \in InstrumentNames THEN ilast'.name
                         ELSE DEFAULT_INSTRUMENT
        /\ prof' = INSTRUMENTS(instrument')
        /\ filt'.hp_hz = FILTERS(instrument').hp_hz
        /\ filt'.lp_hz = FILTERS(instrument').lp_hz
        /\ filt'.hp_alpha = RecomputeFilterCoeffs(filt').hp_alpha
        /\ filt'.lp_alpha = RecomputeFilterCoeffs(filt').lp_alpha
        /\ filt'.hp_prev_x = 0 /\ filt'.hp_prev_y = 0 /\ filt'.lp_prev_y = 0

C32_SetInstrumentFrame == [][C32_ProfileStep]_vars

\* set_instrument was handed a name that is no profile while the Guitar was
\* selected, a voice was held by the pedal in the middle of its ramp and the
\* filter had a history.
C32_Witness ==
    /\ last.op = "set_instrument"
    /\ ilast.name = "Organ"
    /\ instrument = DEFAULT_INSTRUMENT
    /\ ilast.before.hp_hz = FILTERS("Guitar").hp_hz
    /\ ilast.before.hp_alpha # filt.hp_alpha
    /\ ilast.before.lp_alpha # filt.lp_alpha
    /\ ilast.before.hp_prev_x # 0 /\ ilast.before.hp_prev_y # 0 /\ ilast.before.lp_prev_y # 0
    /\ sustained_notes # {}
    /\ \E i \in DOMAIN notes :
          notes[i].stage = "pedal" /\ notes[i].envelope > 0 /\ notes[i].envelope < EnvOne

\* ------------------------------------------------------------- claims: MIDI input

\* C33: no note number outside 0..127 is a key of the voice table.
C33_KeysInRange == \A k \in Keys(notes) : k \in 0..127

\* ------------------------------------------------------------- claims: envelope loop

\* The time of the stage the voice is in, and where a time that is not
\* positive sends the voice: the next stage and its envelope.
StageTime(note, p) ==
    CASE note.stage = "attack" -> p.attack
      [] note.stage = "decay" -> p.decay
      [] note.stage = "pedal" -> p.pedal_release
      [] note.stage = "release" -> p.release
      [] OTHER -> 1

Skipped(note, p) ==
    CASE note.stage = "attack" -> [note EXCEPT !.envelope = EnvOne, !.stage = "decay"]
      [] note.stage = "decay" -> [note EXCEPT !.envelope = p.sustain_level,
                                              !.stage = "sustain"]
      [] OTHER -> [note EXCEPT !.envelope = 0, !.stage = "off"]

\* C34: every pass of the loop of _build_envelope_block raises no division by
\* zero and either writes at least one sample or moves the voice to a later
\* stage, never writing more than num_samples; a time that is not positive
\* moves the voice on at once, to envelope 1, the sustain level or 0; so a
\* call makes at most num_samples + 5 passes, and it ends with the block and
\* the voice that _build_envelope_block returns.
C34_LoopStep ==
    loop'.passes = loop.passes + 1 =>
        LET i == Len(loop.out)
            j == Len(loop'.out)
        IN  /\ ~loop'.raised
            /\ j > i \/ StageRank(loop'.note.stage) > StageRank(loop.note.stage)
            /\ j <= loop.num_samples
            /\ StageTime(loop.note, loop.p) <= 0 =>
                  j = i /\ loop'.note = Skipped(loop.note, loop.p)
            /\ loop'.passes <= loop.num_samples + 5
            /\ j >= loop.num_samples =>
                  [note |-> loop'.note, envelope |-> loop'.out]
                      = BuildEnvelopeBlock(loop.first, loop.p, loop.pedal, loop.num_samples)

C34_EnvelopeTerminates == [][C34_LoopStep]_vars

\* A call for a voice at the start of its attack, with an attack time of zero
\* and a negative decay time, has ended after three passes with a whole buffer
\* at the sustain level.
C34_Witness ==
    /\ loop.first.stage = "attack"
    /\ loop.first.envelope = 0
    /\ loop.p.attack = 0
    /\ loop.p.decay < 0
    /\ loop.num_samples = MaxSamples
    /\ Len(loop.out) = loop.num_samples
    /\ loop.passes = 3
    /\ loop.note.stage = "sustain"
    /\ \A k \in DOMAIN loop.out : loop.out[k] = loop.p.sustain_level

\* ------------------------------------------------------------- claims: synthesizer cleanup

\* The instances cleanup() was called on, in call order.
CleanedSynths == [i \in 1..Len(ctl.cleanups) |-> ctl.cleanups[i].synth]

\* C31: cleanup() is called only by the controller's stop(), after the MIDI
\* input was stopped and with no started stream left and no callback holding
\* the instance, at most once on an instance, and once stop() has returned it
\* has been called on every instance with the method that was ever installed.
C31_CleanupOnceAfterStop ==
    /\ \A i \in 1..Len(ctl.cleanups) :
          LET k == ctl.cleanups[i] IN
          /\ k.in_stop
          /\ ~k.midi
          /\ k.started = {}
          /\ k.cb_synth # k.synth
          /\ \A j \in 1..Len(ctl.cleanups) : j # i => CleanedSynths[j] # k.synth
    /\ ctl.phase # "stopped" => ctl.cleanups = << >>
    /\ ctl.phase = "stopped" =>
          \A s \in ctl.ever : HasCleanup(ctl, s) => s \in Range(CleanedSynths)

\* stop() has cleaned up a replaced SoundFontSynth and the installed one, and
\* the engine had been started with one of them installed.
C31_Witness ==
    /\ ctl.phase = "stopped"
    /\ Len(ctl.cleanups) = 2
    /\ ctl.cleanup_synths # << >>
    /\ ctl.synth \in ctl.soundfonts
    /\ dlast.trace # << >>

\* ------------------------------------------------------------- claims: count-in

\* The step ends a count-in with its last beat.
CountInCompletes == cin'.ended = "completed" /\ cin' # cin

\* C37: a record-on toggle that begins a count-in of N beats while nothing is
\* recorded starts the recording with the N-th beat signal emitted since the
\* toggle and not before, and nothing but that beat or a record toggle changes
\* whether a recording runs; a record-on toggle during the count-in changes
\* nothing; when the count-in has completed or was cancelled by record-off,
\* the metronome runs iff the metronome toggle is on.
C37_CountInStep ==
    /\ count_in_active' /\ ~cin'.was_recording =>
          /\ ~recording'
          /\ cin'.beats < cin'.n
    /\ CountInCompletes /\ ~cin'.was_recording =>
          /\ cin'.beats = cin'.n
          /\ mlast'.beats = 1
          /\ recording'
          /\ m_running' <=> metronome_enabled'
    /\ recording' # recording =>
          mlast'.op = "record_toggled" \/ CountInCompletes
    /\ count_in_active /\ count_in_active' /\ mlast'.op = "record_toggled" =>
          UNCHANGED <<m_running, m_bpm, m_next_beat_at, m_beats_per_cycle,
                      m_accent_beat, m_beat_index, m_timer, metronome_enabled,
                      count_in_enabled, count_in_beats, count_in_remaining, recording,
                      audio_callback_fn, cin>>
    /\ count_in_active /\ cin'.ended = "cancelled" =>
          /\ ~count_in_active'
          /\ ~recording'
          /\ m_running' <=> metronome_enabled'

C37_CountIn == [][C37_CountInStep]_vars

\* A count-in of two beats begun while the metronome toggle was off has
\* started the recording and stopped the metronome.
C37_Witness ==
    /\ cin.ended = "completed"
    /\ cin.n = 2
    /\ cin.beats = 2
    /\ ~cin.was_recording
    /\ recording
    /\ ~metronome_enabled
    /\ ~m_running

\* ------------------------------------------------------------- claims: recorded takes

\* C38: every merge into the editor's event list is made by a stop that found
\* a recording in progress, and no take is merged twice.
C38_MergedOnce ==
    \A i \in 1..Len(ed.merges) :
       /\ ed.merges[i].recording
       /\ \A j \in 1..Len(ed.merges) : j # i => ed.merges[j].take # ed.merges[i].take

\* ------------------------------------------------------------- claims: WAV recording

\* C39: no audio callback fails at the recording sink: it never calls a sink
\* that is None, and WavRecorder.write never calls writeframes on a closed
\* file or on None.
C39_CallbackNeverFails == wav.failed = "none"

\* C40: every sample written to the WAV file is the 16-bit value of the
\* sample the same callback sent to the output device.
C40_WrittenIsSent ==
    \A i \in DOMAIN wav.written : wav.written[i] = Scaled(wav.sent[i])

====
